---- MODULE Spec2Model ----
(***************************************************************************)
(* Authentication and authorization core of the inventory manager:         *)
(* AuthManager (auth_manager.py) over the USERS sheet (data_store.py) and  *)
(* the session / lockout tables and endpoints of server.py.                *)
(*                                                                         *)
(* Conventions                                                             *)
(*  - A USERS row keeps the columns the logic reads: User_ID, Username,    *)
(*    Password_Hash, Role, Account_Status.  User_ID n stands for the       *)
(*    string "USR%03d" % n.  Cell values of other columns are assumed not  *)
(*    to collide with a User_ID, so the sheet's find(user_id) is the first *)
(*    row with that User_ID.                                               *)
(*  - Python None and the empty string are both falsy; an absent optional  *)
(*    string argument is "".  An absent caller is NoUser.                  *)
(*  - Time is in minutes.                                                  *)
(*  - current_user is the identity an InventoryManager (or the command     *)
(*    line) holds; checked is the last call of check_permission on it: the *)
(*    permission asked and the value returned.                             *)
(*  - The ACTIVITY_LOG sheet is append-only and never read back: logged is *)
(*    the rows the last request appended to it (actor, action, and the     *)
(*    user id its detail text names, 0 when it names none), and log_up     *)
(*    tells whether an append to the sheet succeeds or raises.             *)
(*  - inventory is the INVENTORY sheet, a row per item with its Item_ID    *)
(*    (n for "ITM%03d") and Quantity_In_Stock, the columns the code        *)
(*    computes with; orders is the number of rows of RESTOCK_ORDERS, which *)
(*    is only appended to.                                                 *)
(*  - pending holds the DELETE /users requests that have passed the checks *)
(*    of AuthManager.delete_user and not yet removed their row: these      *)
(*    handlers are plain functions, which the server runs on worker        *)
(*    threads, while login, logout and unlock are coroutines with no await *)
(*    and run to completion one at a time.                                 *)
(***************************************************************************)
EXTENDS Integers, Sequences, FiniteSets, TLC

VARIABLES users, sessions, failed_login_attempts, now, next_token, last,
          current_user, checked, logged, log_up, pending, inventory, orders

vars == <<users, sessions, failed_login_attempts, now, next_token, last,
          current_user, checked, logged, log_up, pending, inventory, orders>>

---------------------------------------------------------------------------
(* Program constants *)

ROLE_ADMIN == "Admin"
ROLE_STAFF == "Staff"

LockThreshold == 5
LockMinutes == 10
SessionHours == 8
SessionMinutes == SessionHours * 60

\* locked_until = None
None == -1

---------------------------------------------------------------------------
(* Input alphabets *)

Names == {"al", "AL", "bo"}
Passwords == {"p1", "p2"}
RoleInputs == {ROLE_ADMIN, ROLE_STAFF}
StatusInputs == {"Active", "Suspended"}

\* str.lower() on the name alphabet
Lower(s) == IF s = "AL" THEN "al" ELSE s

NoUser == [User_ID |-> 0, Username |-> "", Password_Hash |-> <<>>,
           Role |-> "", Account_Status |-> ""]

---------------------------------------------------------------------------
(* Sequence helpers *)

RemoveAt(s, i) == [j \in 1..(Len(s) - 1) |-> IF j < i THEN s[j] ELSE s[j + 1]]

\* index of the first element satisfying P, 0 when there is none
FirstIdx(s, P(_)) ==
    IF \E i \in 1..Len(s) : P(s[i])
    THEN CHOOSE i \in 1..Len(s) : P(s[i]) /\ \A j \in 1..(i - 1) : ~P(s[j])
    ELSE 0

Max(S) == CHOOSE x \in S : \A y \in S : y <= x

---------------------------------------------------------------------------
(* Credential hasher *)

hash_password(plain_password) == <<"bcrypt", plain_password>>

verify_password(plain_password, hashed_password) ==
    hashed_password = hash_password(plain_password)

---------------------------------------------------------------------------
(* DataStore: USERS sheet *)

FindRow(us, user_id) ==
    LET Hit(r) == r.User_ID = user_id IN FirstIdx(us, Hit)

get_user_by_id(us, user_id) ==
    LET i == FindRow(us, user_id) IN IF i = 0 THEN NoUser ELSE us[i]

db_update_user(us, user_id, username, role, status) ==
    LET i == FindRow(us, user_id) IN
    [us EXCEPT ![i] = [@ EXCEPT
        !.Username = IF username /= "" THEN username ELSE @,
        !.Role = IF role /= "" THEN role ELSE @,
        !.Account_Status = IF status /= "" THEN status ELSE @]]

db_delete_user(us, user_id) == RemoveAt(us, FindRow(us, user_id))

update_user_password(us, user_id, new_password_hash) ==
    [us EXCEPT ![FindRow(us, user_id)].Password_Hash = new_password_hash]

\* The append to ACTIVITY_LOG that ends a call which has already produced r:
\* r gains the appended row, or the append raises and the call's own return
\* value is lost while its writes to the USERS sheet stay.
log_activity(r, user_id, action, details) ==
    IF log_up
    THEN [f \in DOMAIN r \cup {"log"} |->
            IF f = "log"
            THEN <<[User_ID |-> user_id, Action |-> action, Details |-> details]>>
            ELSE r[f]]
    ELSE [r EXCEPT !.exc = "Exception"]

\* the rows a call appended to ACTIVITY_LOG
LogOf(r) == IF "log" \in DOMAIN r THEN r.log ELSE <<>>

---------------------------------------------------------------------------
(* AuthManager.  Each operator returns the exception raised ("None" when  *)
(* the call returns), the USERS sheet after the call and, when the call   *)
(* logged, the row it appended to ACTIVITY_LOG.                            *)

generate_user_id(us) ==
    IF Len(us) = 0 THEN 1
    ELSE Max({0} \cup {us[i].User_ID : i \in 1..Len(us)}) + 1

\* mutant: no bootstrap exception for the empty sheet
create_user_no_bootstrap(us, creator_admin, username, password, role) ==
    IF creator_admin = NoUser \/ creator_admin.Role /= ROLE_ADMIN
    THEN [exc |-> "PermissionError", users |-> us]
    ELSE IF \E i \in 1..Len(us) : Lower(us[i].Username) = Lower(username)
    THEN [exc |-> "ValueError", users |-> us]
    ELSE log_activity(
            [exc |-> "None",
             users |-> Append(us, [User_ID |-> generate_user_id(us),
                                   Username |-> username,
                                   Password_Hash |-> hash_password(password),
                                   Role |-> role,
                                   Account_Status |-> "Active"])],
            IF creator_admin /= NoUser THEN creator_admin.User_ID
            ELSE generate_user_id(us),
            "CREATE_USER", 0)

\* mutant: usernames compared as written
create_user_exact_name(us, creator_admin, username, password, role) ==
    IF Len(us) > 0 /\ (creator_admin = NoUser \/ creator_admin.Role /= ROLE_ADMIN)
    THEN [exc |-> "PermissionError", users |-> us]
    ELSE IF \E i \in 1..Len(us) : us[i].Username = username
    THEN [exc |-> "ValueError", users |-> us]
    ELSE log_activity(
            [exc |-> "None",
             users |-> Append(us, [User_ID |-> generate_user_id(us),
                                   Username |-> username,
                                   Password_Hash |-> hash_password(password),
                                   Role |-> role,
                                   Account_Status |-> "Active"])],
            IF creator_admin /= NoUser THEN creator_admin.User_ID
            ELSE generate_user_id(us),
            "CREATE_USER", 0)

create_user(us, creator_admin, username, password, role) ==
    IF Len(us) > 0 /\ (creator_admin = NoUser \/ creator_admin.Role /= ROLE_ADMIN)
    THEN [exc |-> "PermissionError", users |-> us]
    ELSE IF \E i \in 1..Len(us) : Lower(us[i].Username) = Lower(username)
    THEN [exc |-> "ValueError", users |-> us]
    ELSE log_activity(
            [exc |-> "None",
             users |-> Append(us, [User_ID |-> generate_user_id(us),
                                   Username |-> username,
                                   Password_Hash |-> hash_password(password),
                                   Role |-> role,
                                   Account_Status |-> "Active"])],
            IF creator_admin /= NoUser THEN creator_admin.User_ID
            ELSE generate_user_id(us),
            "CREATE_USER", 0)

\* mutant: the username matched as written
authenticate_exact_name(us, username, password) ==
    LET Hit(r) == r.Username = username
        i == FirstIdx(us, Hit)
    IN  IF i = 0 THEN [exc |-> "None", user |-> NoUser]
        ELSE IF us[i].Account_Status /= "Active"
        THEN [exc |-> "PermissionError", user |-> NoUser]
        ELSE IF verify_password(password, us[i].Password_Hash)
        THEN log_activity([exc |-> "None", user |-> us[i]],
                          us[i].User_ID, "LOGIN", 0)
        ELSE [exc |-> "None", user |-> NoUser]

authenticate(us, username, password) ==
    LET Hit(r) == Lower(r.Username) = Lower(username)
        i == FirstIdx(us, Hit)
    IN  IF i = 0 THEN [exc |-> "None", user |-> NoUser]
        ELSE IF us[i].Account_Status /= "Active"
        THEN [exc |-> "PermissionError", user |-> NoUser]
        ELSE IF verify_password(password, us[i].Password_Hash)
        THEN log_activity([exc |-> "None", user |-> us[i]],
                          us[i].User_ID, "LOGIN", 0)
        ELSE [exc |-> "None", user |-> NoUser]

\* mutant: a rename is not checked against the other usernames
update_user_no_conflict(us, admin_user, user_id, username, role, status) ==
    IF admin_user = NoUser \/ admin_user.Role /= ROLE_ADMIN
    THEN [exc |-> "PermissionError", users |-> us]
    ELSE IF FindRow(us, user_id) = 0
    THEN [exc |-> "ValueError", users |-> us]
    ELSE log_activity(
            [exc |-> "None",
             users |-> db_update_user(us, user_id, username, role, status)],
            admin_user.User_ID, "UPDATE_USER", user_id)

\* mutant: a rename is checked against the other usernames only when it is
\* the only change asked for
update_user_rename_alone(us, admin_user, user_id, username, role, status) ==
    IF admin_user = NoUser \/ admin_user.Role /= ROLE_ADMIN
    THEN [exc |-> "PermissionError", users |-> us]
    ELSE IF username /= "" /\ role = "" /\ status = "" /\ \E i \in 1..Len(us) :
                us[i].User_ID /= user_id /\ Lower(us[i].Username) = Lower(username)
    THEN [exc |-> "ValueError", users |-> us]
    ELSE IF FindRow(us, user_id) = 0
    THEN [exc |-> "ValueError", users |-> us]
    ELSE log_activity(
            [exc |-> "None",
             users |-> db_update_user(us, user_id, username, role, status)],
            admin_user.User_ID, "UPDATE_USER", user_id)

update_user(us, admin_user, user_id, username, role, status) ==
    IF admin_user = NoUser \/ admin_user.Role /= ROLE_ADMIN
    THEN [exc |-> "PermissionError", users |-> us]
    ELSE IF username /= "" /\ \E i \in 1..Len(us) :
                us[i].User_ID /= user_id /\ Lower(us[i].Username) = Lower(username)
    THEN [exc |-> "ValueError", users |-> us]
    ELSE IF FindRow(us, user_id) = 0
    THEN [exc |-> "ValueError", users |-> us]
    ELSE log_activity(
            [exc |-> "None",
             users |-> db_update_user(us, user_id, username, role, status)],
            admin_user.User_ID, "UPDATE_USER", user_id)

admin_count(us) == Cardinality({i \in 1..Len(us) : us[i].Role = ROLE_ADMIN})

\* mutant: the last-admin rule counts no Admin out
delete_user_no_last_admin(us, admin_user, user_id) ==
    IF admin_user = NoUser \/ admin_user.Role /= ROLE_ADMIN
    THEN [exc |-> "PermissionError", users |-> us]
    ELSE IF admin_user.User_ID = user_id
    THEN [exc |-> "PermissionError", users |-> us]
    ELSE IF get_user_by_id(us, user_id) = NoUser
    THEN [exc |-> "ValueError", users |-> us]
    ELSE log_activity([exc |-> "None", users |-> db_delete_user(us, user_id)],
                      admin_user.User_ID, "DELETE_USER", user_id)

delete_user(us, admin_user, user_id) ==
    IF admin_user = NoUser \/ admin_user.Role /= ROLE_ADMIN
    THEN [exc |-> "PermissionError", users |-> us]
    ELSE IF admin_user.User_ID = user_id
    THEN [exc |-> "PermissionError", users |-> us]
    ELSE IF get_user_by_id(us, user_id) = NoUser
    THEN [exc |-> "ValueError", users |-> us]
    ELSE IF get_user_by_id(us, user_id).Role = ROLE_ADMIN /\ admin_count(us) <= 1
    THEN [exc |-> "PermissionError", users |-> us]
    ELSE log_activity([exc |-> "None", users |-> db_delete_user(us, user_id)],
                      admin_user.User_ID, "DELETE_USER", user_id)

\* mutant: any caller may reset a password
reset_user_password_any_caller(us, admin_user, user_id, new_password) ==
    IF get_user_by_id(us, user_id) = NoUser
    THEN [exc |-> "ValueError", users |-> us]
    ELSE log_activity(
            [exc |-> "None",
             users |-> update_user_password(us, user_id, hash_password(new_password))],
            admin_user.User_ID, "RESET_PASSWORD", user_id)

reset_user_password(us, admin_user, user_id, new_password) ==
    IF admin_user = NoUser \/ admin_user.Role /= ROLE_ADMIN
    THEN [exc |-> "PermissionError", users |-> us]
    ELSE IF get_user_by_id(us, user_id) = NoUser
    THEN [exc |-> "ValueError", users |-> us]
    ELSE log_activity(
            [exc |-> "None",
             users |-> update_user_password(us, user_id, hash_password(new_password))],
            admin_user.User_ID, "RESET_PASSWORD", user_id)

change_password(us, user, current_password, new_password) ==
    IF ~verify_password(current_password, user.Password_Hash)
    THEN [exc |-> "PermissionError", users |-> us]
    ELSE IF FindRow(us, user.User_ID) = 0
    THEN [exc |-> "ValueError", users |-> us]
    ELSE log_activity(
            [exc |-> "None",
             users |-> update_user_password(us, user.User_ID,
                                            hash_password(new_password))],
            user.User_ID, "CHANGE_PASSWORD", 0)

---------------------------------------------------------------------------
(* auth_manager.py: the permission model *)

PERM_ADD_ITEM == "add_item"
PERM_EDIT_ITEM == "edit_item"
PERM_DELETE_ITEM == "delete_item"
PERM_RESTOCK == "restock"
PERM_MANAGE_USERS == "manage_users"
PERM_VIEW_REPORTS == "view_reports"

\* mutant: Staff may delete items
ROLE_PERMISSIONS_staff_deletes(role) ==
    IF role = ROLE_ADMIN
    THEN {PERM_ADD_ITEM, PERM_EDIT_ITEM, PERM_DELETE_ITEM, PERM_RESTOCK,
          PERM_MANAGE_USERS, PERM_VIEW_REPORTS}
    ELSE IF role = ROLE_STAFF
    THEN {PERM_ADD_ITEM, PERM_EDIT_ITEM, PERM_DELETE_ITEM, PERM_RESTOCK,
          PERM_VIEW_REPORTS}
    ELSE {}

\* ROLE_PERMISSIONS.get(role, [])
ROLE_PERMISSIONS(role) ==
    IF role = ROLE_ADMIN
    THEN {PERM_ADD_ITEM, PERM_EDIT_ITEM, PERM_DELETE_ITEM, PERM_RESTOCK,
          PERM_MANAGE_USERS, PERM_VIEW_REPORTS}
    ELSE IF role = ROLE_STAFF
    THEN {PERM_ADD_ITEM, PERM_EDIT_ITEM, PERM_RESTOCK, PERM_VIEW_REPORTS}
    ELSE {}

check_permission(user, permission) ==
    IF user = NoUser \/ "Role" \notin DOMAIN user
    THEN FALSE
    ELSE permission \in ROLE_PERMISSIONS(user.Role)

\* no call of check_permission yet
NotChecked == [permission |-> "", result |-> FALSE]

\* a call of check_permission on the identity held, as the menus of main.py
\* and the methods of InventoryManager make it
check_permission_call(permission) ==
    /\ checked' = [permission |-> permission,
                   result |-> check_permission(current_user, permission)]
    /\ UNCHANGED <<users, sessions, failed_login_attempts, now, next_token,
                   last, current_user, logged, log_up, pending, inventory,
                   orders>>

---------------------------------------------------------------------------
(* server.py: session and lockout tables *)

EmptyTable == [k \in {} |-> [count |-> 0, locked_until |-> None]]

Drop(f, k) == [x \in DOMAIN f \ {k} |-> f[x]]

Put(f, k, v) == [x \in DOMAIN f \cup {k} |-> IF x = k THEN v ELSE f[x]]

SessionIdx(ss, token) ==
    LET Hit(s) == s.token = token IN FirstIdx(ss, Hit)

\* Depends(get_current_user_token): the caller's snapshot, or 401 with the
\* detail text of the refusal; an expired session is removed by the check.
\* Token 0 is "no credentials".
get_current_user_token(ss, t, token) ==
    LET i == SessionIdx(ss, token) IN
    IF token = 0
    THEN [ok |-> FALSE, user |-> NoUser, sessions |-> ss,
          detail |-> "Not authenticated"]
    ELSE IF i = 0
    THEN [ok |-> FALSE, user |-> NoUser, sessions |-> ss,
          detail |-> "Invalid or expired session"]
    ELSE IF t > ss[i].expires_at
    THEN [ok |-> FALSE, user |-> NoUser, sessions |-> RemoveAt(ss, i),
          detail |-> "Session expired"]
    ELSE [ok |-> TRUE, user |-> ss[i].user, sessions |-> ss, detail |-> ""]

\* The record a session binds at login: the whole USERS row as it stood,
\* Username included.
Snapshot(user) == user

\* what the caller of the last operation got back: the HTTP status (for the
\* command line: the exit code) and the exception that decided it; token is
\* the bearer token presented (for a login: the token issued), 0 when none;
\* detail is the text of a refusal by the bearer-token dependency
Response(op, token, status, exc) ==
    [op |-> op, token |-> token, status |-> status, exc |-> exc, detail |-> ""]

\* the request is rejected by the bearer-token dependency, before the
\* endpoint's body runs
Unauthorized(token) ==
    /\ sessions' = get_current_user_token(sessions, now, token).sessions
    /\ last' = [Response("get_current_user_token", token, 401, "HTTPException")
                    EXCEPT !.detail = get_current_user_token(sessions, now, token).detail]
    /\ logged' = <<>>
    /\ UNCHANGED <<inventory, orders, current_user, checked, log_up, pending, users, failed_login_attempts, now, next_token>>

\* except PermissionError -> 403; except ValueError -> value_status; any
\* other exception leaves the endpoint: 500
HttpStatus(exc, value_status) ==
    IF exc = "None" THEN 200
    ELSE IF exc = "PermissionError" THEN 403
    ELSE IF exc = "ValueError" THEN value_status
    ELSE 500

---------------------------------------------------------------------------
(* server.py: authentication endpoints *)

initial_setup(username, password) ==
    LET r == create_user(users, NoUser, username, password, "Admin") IN
    /\ IF Len(users) > 0
       THEN /\ last' = Response("initial_setup", 0, 500, "HTTPException")
            /\ logged' = <<>>
            /\ UNCHANGED users
       ELSE /\ users' = r.users
            /\ last' = Response("initial_setup", 0,
                                IF r.exc = "None" THEN 200
                                ELSE IF r.exc = "ValueError" THEN 400 ELSE 500,
                                r.exc)
            /\ logged' = LogOf(r)
    /\ UNCHANGED <<inventory, orders, current_user, checked, log_up, pending, sessions, failed_login_attempts, now, next_token>>

\* the lockout check at the head of login: the table after an elapsed
\* lockout has been cleared
check_locked(table, t, username) ==
    IF username \in DOMAIN table /\ table[username].locked_until /= None
       /\ t >= table[username].locked_until
    THEN Drop(table, username)
    ELSE table

\* mutant: the window still closed at the instant of expiry
is_locked_inclusive(table, t, username) ==
    /\ username \in DOMAIN table
    /\ table[username].locked_until /= None
    /\ t <= table[username].locked_until

\* mutant: no username is ever found locked
is_locked_never(table, t, username) == FALSE

is_locked(table, t, username) ==
    /\ username \in DOMAIN table
    /\ table[username].locked_until /= None
    /\ t < table[username].locked_until

\* mutant: the lock is set one failure late
record_failure_late(table, t, username) ==
    LET old == IF username \in DOMAIN table THEN table[username]
               ELSE [count |-> 0, locked_until |-> None]
        cnt == old.count + 1
    IN  Put(table, username,
            [count |-> cnt,
             locked_until |-> IF cnt > LockThreshold THEN t + LockMinutes
                              ELSE old.locked_until])

\* the table after one more failed attempt of username
record_failure(table, t, username) ==
    LET old == IF username \in DOMAIN table THEN table[username]
               ELSE [count |-> 0, locked_until |-> None]
        cnt == old.count + 1
    IN  Put(table, username,
            [count |-> cnt,
             locked_until |-> IF cnt >= LockThreshold THEN t + LockMinutes
                              ELSE old.locked_until])

\* mutant: a successful login leaves the failed-attempt record in place
login_keeps_failures(login_username, password) ==
    LET username == Lower(login_username)
        table == check_locked(failed_login_attempts, now, username)
        a == authenticate(users, login_username, password)
    IN
    IF is_locked(failed_login_attempts, now, username)
    THEN /\ last' = Response("login", 0, 403, "HTTPException")
         /\ logged' = <<>>
         /\ UNCHANGED <<inventory, orders, current_user, checked, log_up, pending, users, sessions, failed_login_attempts, now, next_token>>
    ELSE IF a.exc /= "None"
    THEN /\ failed_login_attempts' = table
         /\ last' = Response("login", 0, 500, a.exc)
         /\ logged' = <<>>
         /\ UNCHANGED <<inventory, orders, current_user, checked, log_up, pending, users, sessions, now, next_token>>
    ELSE IF a.user = NoUser
    THEN /\ failed_login_attempts' = record_failure(table, now, username)
         /\ last' = Response("login", 0,
                             IF failed_login_attempts'[username].count >= LockThreshold
                             THEN 403 ELSE 401,
                             "HTTPException")
         /\ logged' = <<>>
         /\ UNCHANGED <<inventory, orders, current_user, checked, log_up, pending, users, sessions, now, next_token>>
    ELSE /\ failed_login_attempts' = table
         /\ IF a.user.Account_Status /= "Active"
            THEN /\ last' = Response("login", 0, 403, "HTTPException")
                 /\ UNCHANGED <<sessions, next_token>>
            ELSE /\ sessions' = Append(sessions,
                                       [token |-> next_token, user |-> Snapshot(a.user),
                                        expires_at |-> now + SessionMinutes])
                 /\ next_token' = next_token + 1
                 /\ last' = Response("login", next_token, 200, "None")
         /\ logged' = LogOf(a)
         /\ UNCHANGED <<inventory, orders, current_user, checked, log_up, pending, users, now>>

\* mutant: a login replaces the sessions its account already holds
login_single_session(login_username, password) ==
    LET username == Lower(login_username)
        table == check_locked(failed_login_attempts, now, username)
        a == authenticate(users, login_username, password)
    IN
    IF is_locked(failed_login_attempts, now, username)
    THEN /\ last' = Response("login", 0, 403, "HTTPException")
         /\ logged' = <<>>
         /\ UNCHANGED <<inventory, orders, current_user, checked, log_up, pending, users, sessions, failed_login_attempts, now, next_token>>
    ELSE IF a.exc /= "None"
    THEN /\ failed_login_attempts' = table
         /\ last' = Response("login", 0, 500, a.exc)
         /\ logged' = <<>>
         /\ UNCHANGED <<inventory, orders, current_user, checked, log_up, pending, users, sessions, now, next_token>>
    ELSE IF a.user = NoUser
    THEN /\ failed_login_attempts' = record_failure(table, now, username)
         /\ last' = Response("login", 0,
                             IF failed_login_attempts'[username].count >= LockThreshold
                             THEN 403 ELSE 401,
                             "HTTPException")
         /\ logged' = <<>>
         /\ UNCHANGED <<inventory, orders, current_user, checked, log_up, pending, users, sessions, now, next_token>>
    ELSE /\ failed_login_attempts' = Drop(table, username)
         /\ IF a.user.Account_Status /= "Active"
            THEN /\ last' = Response("login", 0, 403, "HTTPException")
                 /\ UNCHANGED <<sessions, next_token>>
            ELSE /\ sessions' = Append(SelectSeq(sessions, LAMBDA s : s.user.User_ID /= a.user.User_ID),
                                       [token |-> next_token, user |-> Snapshot(a.user),
                                        expires_at |-> now + SessionMinutes])
                 /\ next_token' = next_token + 1
                 /\ last' = Response("login", next_token, 200, "None")
         /\ logged' = LogOf(a)
         /\ UNCHANGED <<inventory, orders, current_user, checked, log_up, pending, users, now>>

login(login_username, password) ==
    LET username == Lower(login_username)
        table == check_locked(failed_login_attempts, now, username)
        a == authenticate(users, login_username, password)
    IN
    IF is_locked(failed_login_attempts, now, username)
    THEN /\ last' = Response("login", 0, 403, "HTTPException")
         /\ logged' = <<>>
         /\ UNCHANGED <<inventory, orders, current_user, checked, log_up, pending, users, sessions, failed_login_attempts, now, next_token>>
    ELSE IF a.exc /= "None"
    THEN /\ failed_login_attempts' = table
         /\ last' = Response("login", 0, 500, a.exc)
         /\ logged' = <<>>
         /\ UNCHANGED <<inventory, orders, current_user, checked, log_up, pending, users, sessions, now, next_token>>
    ELSE IF a.user = NoUser
    THEN /\ failed_login_attempts' = record_failure(table, now, username)
         /\ last' = Response("login", 0,
                             IF failed_login_attempts'[username].count >= LockThreshold
                             THEN 403 ELSE 401,
                             "HTTPException")
         /\ logged' = <<>>
         /\ UNCHANGED <<inventory, orders, current_user, checked, log_up, pending, users, sessions, now, next_token>>
    ELSE /\ failed_login_attempts' = Drop(table, username)
         /\ IF a.user.Account_Status /= "Active"
            THEN /\ last' = Response("login", 0, 403, "HTTPException")
                 /\ UNCHANGED <<sessions, next_token>>
            ELSE /\ sessions' = Append(sessions,
                                       [token |-> next_token, user |-> Snapshot(a.user),
                                        expires_at |-> now + SessionMinutes])
                 /\ next_token' = next_token + 1
                 /\ last' = Response("login", next_token, 200, "None")
         /\ logged' = LogOf(a)
         /\ UNCHANGED <<inventory, orders, current_user, checked, log_up, pending, users, now>>

logout(token) ==
    LET v == get_current_user_token(sessions, now, token)
        Mine(s) == s.user.User_ID = v.user.User_ID
        token_to_remove == FirstIdx(sessions, Mine)
    IN
    IF ~v.ok THEN Unauthorized(token)
    ELSE /\ sessions' = IF token_to_remove /= 0 THEN RemoveAt(sessions, token_to_remove)
                        ELSE sessions
         /\ last' = Response("logout", token, 200, "None")
         /\ logged' = <<>>
         /\ UNCHANGED <<inventory, orders, current_user, checked, log_up, pending, users, failed_login_attempts, now, next_token>>

validate_session(token) ==
    LET v == get_current_user_token(sessions, now, token) IN
    IF ~v.ok THEN Unauthorized(token)
    ELSE /\ last' = Response("validate_session", token, 200, "None")
         /\ logged' = <<>>
         /\ UNCHANGED <<inventory, orders, current_user, checked, log_up, pending, users, sessions, failed_login_attempts, now, next_token>>

\* mutant: the username is looked up as written
unlock_account_exact_name(token, username) ==
    LET v == get_current_user_token(sessions, now, token) IN
    IF ~v.ok THEN Unauthorized(token)
    ELSE IF v.user.Role /= "Admin"
    THEN /\ last' = Response("unlock_account", token, 403, "HTTPException")
         /\ logged' = <<>>
         /\ UNCHANGED <<inventory, orders, current_user, checked, log_up, pending, users, sessions, failed_login_attempts, now, next_token>>
    ELSE /\ failed_login_attempts' = Drop(failed_login_attempts, username)
         /\ last' = Response("unlock_account", token, 200, "None")
         /\ logged' = <<>>
         /\ UNCHANGED <<inventory, orders, current_user, checked, log_up, pending, users, sessions, now, next_token>>

unlock_account(token, username) ==
    LET v == get_current_user_token(sessions, now, token) IN
    IF ~v.ok THEN Unauthorized(token)
    ELSE IF v.user.Role /= "Admin"
    THEN /\ last' = Response("unlock_account", token, 403, "HTTPException")
         /\ logged' = <<>>
         /\ UNCHANGED <<inventory, orders, current_user, checked, log_up, pending, users, sessions, failed_login_attempts, now, next_token>>
    ELSE /\ failed_login_attempts' = Drop(failed_login_attempts, Lower(username))
         /\ last' = Response("unlock_account", token, 200, "None")
         /\ logged' = <<>>
         /\ UNCHANGED <<inventory, orders, current_user, checked, log_up, pending, users, sessions, now, next_token>>

---------------------------------------------------------------------------
(* server.py: user management endpoints *)

\* mutant: an update revokes the sessions issued so far
Managed_revoking(op, token, r, value_status) ==
    /\ users' = r.users
    /\ last' = Response(op, token, HttpStatus(r.exc, value_status), r.exc)
    /\ sessions' = IF op = "update_user" /\ r.exc = "None" THEN <<>> ELSE sessions
    /\ logged' = LogOf(r)
    /\ UNCHANGED <<inventory, orders, current_user, checked, log_up, pending, failed_login_attempts, now, next_token>>

\* mutant: a password reset that succeeds forgets the failed attempts
Managed_forgiving(op, token, r, value_status) ==
    /\ users' = r.users
    /\ last' = Response(op, token, HttpStatus(r.exc, value_status), r.exc)
    /\ failed_login_attempts' = IF op = "reset_user_password" /\ r.exc = "None"
                                THEN EmptyTable ELSE failed_login_attempts
    /\ logged' = LogOf(r)
    /\ UNCHANGED <<inventory, orders, current_user, checked, log_up, pending, sessions, now, next_token>>

\* an endpoint that calls an AuthManager method r with the caller's snapshot
Managed(op, token, r, value_status) ==
    /\ users' = r.users
    /\ last' = Response(op, token, HttpStatus(r.exc, value_status), r.exc)
    /\ logged' = LogOf(r)
    /\ UNCHANGED <<inventory, orders, current_user, checked, log_up, pending, sessions, failed_login_attempts, now, next_token>>

create_user_endpoint(token, username, password, role) ==
    LET v == get_current_user_token(sessions, now, token) IN
    IF ~v.ok THEN Unauthorized(token)
    ELSE Managed("create_user", token,
                 create_user(users, v.user, username, password, role), 400)

update_user_endpoint(token, user_id, username, role, status) ==
    LET v == get_current_user_token(sessions, now, token) IN
    IF ~v.ok THEN Unauthorized(token)
    ELSE Managed("update_user", token,
                 update_user(users, v.user, user_id, username, role, status), 400)

delete_user_endpoint(token, user_id) ==
    LET v == get_current_user_token(sessions, now, token) IN
    IF ~v.ok THEN Unauthorized(token)
    ELSE Managed("delete_user", token, delete_user(users, v.user, user_id), 404)

(* DELETE /users/{user_id} as the worker threads run it: the handler is a   *)
(* plain function, so two requests can both be past the checks of          *)
(* AuthManager.delete_user, made on the sheet as each read it, before       *)
(* either removes its row.                                                  *)

\* the request up to and including the checks: refused there, or left
\* waiting to delete
delete_user_begin(token, user_id) ==
    LET v == get_current_user_token(sessions, now, token)
        r == delete_user(users, v.user, user_id)
    IN
    IF ~v.ok THEN Unauthorized(token)
    ELSE IF r.exc \in {"PermissionError", "ValueError"}
    THEN Managed("delete_user", token, r, 404)
    ELSE /\ pending' = pending \cup {[token |-> token, admin_user |-> v.user,
                                       user_id |-> user_id]}
         /\ UNCHANGED <<inventory, orders, current_user, checked, logged, log_up, users, sessions,
                        failed_login_attempts, now, next_token, last>>

\* the rest of a request that passed the checks: the row is looked up
\* again and removed, the deletion logged, the response sent
delete_user_commit(req) ==
    LET r == IF FindRow(users, req.user_id) = 0
             THEN [exc |-> "ValueError", users |-> users]
             ELSE log_activity([exc |-> "None",
                                users |-> db_delete_user(users, req.user_id)],
                               req.admin_user.User_ID, "DELETE_USER", req.user_id)
    IN
    /\ req \in pending
    /\ pending' = pending \ {req}
    /\ users' = r.users
    /\ last' = Response("delete_user", req.token, HttpStatus(r.exc, 404), r.exc)
    /\ logged' = LogOf(r)
    /\ UNCHANGED <<inventory, orders, current_user, checked, log_up, sessions,
                   failed_login_attempts, now, next_token>>

(* POST /users/create as the worker threads run it: the handler is a plain  *)
(* function, and AuthManager.create_user reads the sheet for its checks    *)
(* and for the next User_ID, hashes the password, and only then appends    *)
(* its row, so two requests can both have read before either appends.      *)

\* the request up to the row it is about to add: refused by the checks, or
\* left waiting with the User_ID it generated
create_user_begin(token, username, password, role) ==
    LET v == get_current_user_token(sessions, now, token)
        r == create_user(users, v.user, username, password, role)
    IN
    IF ~v.ok THEN Unauthorized(token)
    ELSE IF r.exc \in {"PermissionError", "ValueError"}
    THEN Managed("create_user", token, r, 400)
    ELSE /\ pending' = pending \cup {[token |-> token, creator_admin |-> v.user,
                                       username |-> username, password |-> password,
                                       role |-> role,
                                       user_id |-> generate_user_id(users)]}
         /\ UNCHANGED <<inventory, orders, current_user, checked, logged, log_up, users, sessions,
                        failed_login_attempts, now, next_token, last>>

\* the rest of the request: the row is appended, the creation logged, the
\* response sent
create_user_commit(req) ==
    LET r == log_activity(
                [exc |-> "None",
                 users |-> Append(users, [User_ID |-> req.user_id,
                                          Username |-> req.username,
                                          Password_Hash |-> hash_password(req.password),
                                          Role |-> req.role,
                                          Account_Status |-> "Active"])],
                req.creator_admin.User_ID, "CREATE_USER", 0)
    IN
    /\ req \in pending
    /\ pending' = pending \ {req}
    /\ users' = r.users
    /\ last' = Response("create_user", req.token, HttpStatus(r.exc, 400), r.exc)
    /\ logged' = LogOf(r)
    /\ UNCHANGED <<inventory, orders, current_user, checked, log_up, sessions,
                   failed_login_attempts, now, next_token>>

reset_user_password_endpoint(token, user_id, new_password) ==
    LET v == get_current_user_token(sessions, now, token) IN
    IF ~v.ok THEN Unauthorized(token)
    ELSE Managed("reset_user_password", token,
                 reset_user_password(users, v.user, user_id, new_password), 404)

\* a ValueError of the store is not caught by the endpoint: 500
change_password_endpoint(token, current_password, new_password) ==
    LET v == get_current_user_token(sessions, now, token) IN
    IF ~v.ok THEN Unauthorized(token)
    ELSE Managed("change_password", token,
                 change_password(users, v.user, current_password, new_password), 500)

---------------------------------------------------------------------------
(* main.py: the command line, sharing the USERS sheet with the server.     *)
(* run() enters first_time_setup when it finds the sheet empty at start-up *)
(* (the initial state) and then waits at its prompts, so the call below    *)
(* can come at any later time.                                             *)

first_time_setup(username, password) ==
    LET r == create_user(users, NoUser, username, password, "Admin") IN
    /\ users' = r.users
    /\ last' = Response("first_time_setup", 0, IF r.exc = "None" THEN 0 ELSE 1, r.exc)
    /\ logged' = LogOf(r)
    /\ UNCHANGED <<inventory, orders, current_user, checked, log_up, pending, sessions, failed_login_attempts, now, next_token>>

---------------------------------------------------------------------------
(* inventory_manager.py.  Each operator returns the exception raised, the  *)
(* INVENTORY sheet and the number of RESTOCK_ORDERS rows after the call    *)
(* and, when the call logged, the row it appended to ACTIVITY_LOG.         *)

generate_item_id(inv) ==
    IF Len(inv) = 0 THEN 1
    ELSE Max({0} \cup {inv[i].Item_ID : i \in 1..Len(inv)}) + 1

\* the first row of the sheet with this Item_ID, 0 when there is none
FindItem(inv, item_id) ==
    LET Hit(r) == r.Item_ID = item_id IN FirstIdx(inv, Hit)

update_inventory_stock(inv, item_id, new_quantity) ==
    [inv EXCEPT ![FindItem(inv, item_id)].Quantity_In_Stock = new_quantity]

\* mutant: items are added without asking the permission model
add_new_item_unchecked(inv, ord, user, quantity) ==
    log_activity(
        [exc |-> "None",
         inventory |-> Append(inv, [Item_ID |-> generate_item_id(inv),
                                    Quantity_In_Stock |-> quantity]),
         orders |-> ord],
        IF "User_ID" \in DOMAIN user THEN user.User_ID ELSE 0, "ADD_ITEM", 0)

add_new_item(inv, ord, user, quantity) ==
    IF ~check_permission(user, PERM_ADD_ITEM)
    THEN [exc |-> "PermissionError", inventory |-> inv, orders |-> ord]
    ELSE log_activity(
            [exc |-> "None",
             inventory |-> Append(inv, [Item_ID |-> generate_item_id(inv),
                                        Quantity_In_Stock |-> quantity]),
             orders |-> ord],
            user.User_ID, "ADD_ITEM", 0)

\* an item that is not in the sheet: the call returns None and writes nothing
restock_item(inv, ord, user, item_id, quantity_received) ==
    IF ~check_permission(user, PERM_RESTOCK)
    THEN [exc |-> "PermissionError", inventory |-> inv, orders |-> ord]
    ELSE IF FindItem(inv, item_id) = 0
    THEN [exc |-> "None", inventory |-> inv, orders |-> ord]
    ELSE log_activity(
            [exc |-> "None",
             inventory |-> update_inventory_stock(inv, item_id,
                               inv[FindItem(inv, item_id)].Quantity_In_Stock
                                   + quantity_received),
             orders |-> ord + 1],
            user.User_ID, "RESTOCK", 0)

\* a method of the InventoryManager called on the identity it holds, as the
\* flows of main.py call it: r is what the method did
Called(op, r) ==
    /\ inventory' = r.inventory
    /\ orders' = r.orders
    /\ last' = Response(op, 0, IF r.exc = "None" THEN 0 ELSE 1, r.exc)
    /\ logged' = LogOf(r)
    /\ UNCHANGED <<users, sessions, failed_login_attempts, now, next_token,
                   current_user, checked, log_up, pending>>

add_new_item_call(quantity) ==
    Called("add_new_item", add_new_item(inventory, orders, current_user, quantity))

restock_item_call(item_id, quantity_received) ==
    Called("restock_item",
           restock_item(inventory, orders, current_user, item_id, quantity_received))

---------------------------------------------------------------------------
(* server.py: inventory endpoints *)

\* POST /items/add: an InventoryManager on the caller's snapshot
add_item(token, quantity) ==
    LET v == get_current_user_token(sessions, now, token)
        r == add_new_item(inventory, orders, v.user, quantity)
    IN
    IF ~v.ok THEN Unauthorized(token)
    ELSE /\ inventory' = r.inventory
         /\ last' = Response("add_item", token, HttpStatus(r.exc, 500), r.exc)
         /\ logged' = LogOf(r)
         /\ UNCHANGED <<orders, users, sessions, failed_login_attempts, now,
                        next_token, current_user, checked, log_up, pending>>

\* the actor under which a sale is logged: the text "WEB_SESSION", no user id
WEB_SESSION == 0

\* the sale as the endpoint answers it once the stock has been read as
\* current_qty: item is the row index of the item (0: not in the sheet)
sale_outcome(inv, item_id, qty, item, current_qty) ==
    IF item = 0
    THEN [exc |-> "HTTPException", status |-> 404, inventory |-> inv]
    ELSE IF current_qty < qty
    THEN [exc |-> "HTTPException", status |-> 400, inventory |-> inv]
    ELSE IF FindItem(inv, item_id) = 0
    THEN [exc |-> "ValueError", status |-> 500, inventory |-> inv]
    ELSE LET r == log_activity(
                      [exc |-> "None",
                       inventory |-> update_inventory_stock(inv, item_id,
                                                            current_qty - qty)],
                      WEB_SESSION, "RECORD_SALE", 0)
         IN  [exc |-> r.exc, status |-> HttpStatus(r.exc, 500),
              inventory |-> r.inventory, log |-> LogOf(r)]

\* mutant: the sale is not checked against the stock
record_sale_unchecked(token, item_id, qty) ==
    LET v == get_current_user_token(sessions, now, token)
        item == FindItem(inventory, item_id)
        r == IF item = 0
             THEN [exc |-> "HTTPException", status |-> 404, inventory |-> inventory]
             ELSE [exc |-> "None", status |-> 200,
                   inventory |-> update_inventory_stock(inventory, item_id,
                                     inventory[item].Quantity_In_Stock - qty),
                   log |-> <<[User_ID |-> WEB_SESSION, Action |-> "RECORD_SALE",
                              Details |-> 0]>>]
    IN
    IF ~v.ok THEN Unauthorized(token)
    ELSE /\ inventory' = r.inventory
         /\ last' = Response("record_sale", token, r.status, r.exc)
         /\ logged' = LogOf(r)
         /\ UNCHANGED <<orders, users, sessions, failed_login_attempts, now,
                        next_token, current_user, checked, log_up, pending>>

\* POST /sales/record, served whole
record_sale(token, item_id, qty) ==
    LET v == get_current_user_token(sessions, now, token)
        item == FindItem(inventory, item_id)
        r == sale_outcome(inventory, item_id, qty, item,
                          IF item = 0 THEN 0
                          ELSE inventory[item].Quantity_In_Stock)
    IN
    IF ~v.ok THEN Unauthorized(token)
    ELSE /\ inventory' = r.inventory
         /\ last' = Response("record_sale", token, r.status, r.exc)
         /\ logged' = LogOf(r)
         /\ UNCHANGED <<orders, users, sessions, failed_login_attempts, now,
                        next_token, current_user, checked, log_up, pending>>

(* POST /sales/record as the worker threads run it: the handler is a plain *)
(* function that reads the stock, checks it, and later writes the stock it *)
(* read less the quantity sold, so two requests can both have read before  *)
(* either writes.                                                          *)

\* the request up to and including the stock check: refused there, or left
\* waiting with the stock it read
record_sale_begin(token, item_id, qty) ==
    LET v == get_current_user_token(sessions, now, token)
        item == FindItem(inventory, item_id)
        current_qty == IF item = 0 THEN 0 ELSE inventory[item].Quantity_In_Stock
        r == sale_outcome(inventory, item_id, qty, item, current_qty)
    IN
    IF ~v.ok THEN Unauthorized(token)
    ELSE IF r.status \in {404, 400}
    THEN /\ last' = Response("record_sale", token, r.status, r.exc)
         /\ logged' = <<>>
         /\ UNCHANGED <<inventory, orders, users, sessions, failed_login_attempts,
                        now, next_token, current_user, checked, log_up, pending>>
    ELSE /\ pending' = pending \cup {[token |-> token, item_id |-> item_id,
                                       qty |-> qty, item |-> item,
                                       current_qty |-> current_qty]}
         /\ UNCHANGED <<inventory, orders, current_user, checked, logged, log_up, users,
                        sessions, failed_login_attempts, now, next_token, last>>

\* the rest of the request: the stock read earlier, less the quantity, is
\* written to the item's row, the sale logged, the response sent
record_sale_commit(req) ==
    LET r == sale_outcome(inventory, req.item_id, req.qty, req.item,
                          req.current_qty)
    IN
    /\ req \in pending
    /\ pending' = pending \ {req}
    /\ inventory' = r.inventory
    /\ last' = Response("record_sale", req.token, r.status, r.exc)
    /\ logged' = LogOf(r)
    /\ UNCHANGED <<orders, users, sessions, failed_login_attempts, now,
                   next_token, current_user, checked, log_up>>

---------------------------------------------------------------------------
(* Time *)

Tick(d) ==
    /\ now' = now + d
    /\ UNCHANGED <<inventory, orders, current_user, checked, logged, log_up, pending, users, sessions, failed_login_attempts, next_token, last>>

---------------------------------------------------------------------------
(* The ACTIVITY_LOG sheet: logs_ws.append_row reaches the spreadsheet      *)
(* service over the network and raises when the service does not answer.   *)

set_log_up(b) ==
    /\ log_up' = b
    /\ UNCHANGED <<inventory, orders, current_user, checked, logged, pending, users, sessions,
                   failed_login_attempts, now, next_token, last>>

---------------------------------------------------------------------------
(* Specifications *)

MaxUsers == 2
MaxTokens == 2
MaxUserId == MaxUsers

UserIds == 1..MaxUserId

\* the tokens a client can present: those issued so far, or none (0)
TokenInputs == 0..(next_token - 1)

\* update requests: one field at a time
UpdateInputs ==
    {<<n, "", "">> : n \in Names} \cup {<<"", r, "">> : r \in RoleInputs}
        \cup {<<"", "", st>> : st \in StatusInputs}

Init ==
    /\ users = <<>>
    /\ sessions = <<>>
    /\ failed_login_attempts = EmptyTable
    /\ now = 0
    /\ next_token = 1
    /\ last = Response("init", 0, 0, "None")
    /\ current_user = NoUser
    /\ checked = NotChecked
    /\ logged = <<>>
    /\ log_up = TRUE
    /\ pending = {}
    /\ inventory = <<>>
    /\ orders = 0

\* room for one more row, with a User_ID inside the bound
RoomForUser == Len(users) < MaxUsers /\ generate_user_id(users) <= MaxUserId

\* a creation request the bounds have room for: one that is refused, or one
\* whose new row fits
CreateFits(caller, n, p, r) ==
    create_user(users, caller, n, p, r).exc /= "None" \/ RoomForUser

\* one client session at a time (a login follows the end of the previous
\* session), and a token left to issue
RoomForSession == Len(sessions) = 0 /\ next_token <= MaxTokens

\* a login that presents the current credentials of an account
GoodLogin(n, p) == authenticate(users, n, p).user /= NoUser

(* The user directory: the management endpoints, called through a session  *)
(* obtained by a login with current credentials and ended by logout, one   *)
(* session at a time, and the command line.  No time passes.               *)
NextDir ==
    \/ \E n \in Names, p \in Passwords :
          CreateFits(NoUser, n, p, ROLE_ADMIN) /\ initial_setup(n, p)
    \/ \E n \in Names, p \in Passwords :
          CreateFits(NoUser, n, p, ROLE_ADMIN) /\ first_time_setup(n, p)
    \/ \E n \in Names, p \in Passwords :
          RoomForSession /\ GoodLogin(n, p) /\ login(n, p)
    \/ \E t \in TokenInputs : logout(t)
    \/ \E t \in TokenInputs, n \in Names, p \in Passwords, r \in RoleInputs :
          /\ CreateFits(get_current_user_token(sessions, now, t).user, n, p, r)
          /\ create_user_endpoint(t, n, p, r)
    \/ \E t \in TokenInputs, id \in UserIds, u \in UpdateInputs :
          update_user_endpoint(t, id, u[1], u[2], u[3])
    \/ \E t \in TokenInputs, id \in UserIds : delete_user_endpoint(t, id)
    \/ \E t \in TokenInputs, id \in UserIds, p \in Passwords :
          reset_user_password_endpoint(t, id, p)
    \/ \E t \in TokenInputs, c \in Passwords, p \in Passwords :
          change_password_endpoint(t, c, p)

SpecDir == Init /\ [][NextDir]_vars

MaxTime == 12

TickSteps == {1, LockMinutes - 1}

StatusUpdates == {<<"", "", st>> : st \in StatusInputs}

\* the usernames presented to login here: one account name, in two cases
LoginNames == {n \in Names : Lower(n) = "al"}

\* a login that issues no session, or one there is room and a token for
LoginFits(n, p) == ~GoodLogin(n, p) \/ RoomForSession

(* Login and lockout: every login request, the admin unlock, suspension    *)
(* and reactivation of accounts, and the passage of time across a lockout  *)
(* window.                                                                 *)
NextLogin ==
    \/ \E n \in Names, p \in Passwords : RoomForUser /\ initial_setup(n, p)
    \/ \E n \in LoginNames, p \in Passwords : LoginFits(n, p) /\ login(n, p)
    \/ \E t \in TokenInputs : logout(t)
    \/ \E t \in TokenInputs, n \in LoginNames : unlock_account(t, n)
    \/ \E t \in TokenInputs, id \in UserIds, u \in StatusUpdates :
          update_user_endpoint(t, id, u[1], u[2], u[3])
    \/ \E d \in TickSteps : now + d <= MaxTime /\ Tick(d)

SpecLogin == Init /\ [][NextLogin]_vars

RoleUpdates == {<<"", r, "">> : r \in RoleInputs}

(* The admin unlock: logins that fail and succeed, the unlock requested    *)
(* through the session of an Admin and, after a role change and a new      *)
(* login, through the session of a Staff member, at every point of a       *)
(* lockout window.                                                         *)
NextUnlock ==
    \/ \E n \in LoginNames, p \in Passwords : RoomForUser /\ initial_setup(n, p)
    \/ \E n \in LoginNames, p \in Passwords : LoginFits(n, p) /\ login(n, p)
    \/ \E t \in TokenInputs : logout(t)
    \/ \E t \in TokenInputs, n \in LoginNames : unlock_account(t, n)
    \/ \E t \in TokenInputs, id \in UserIds, u \in RoleUpdates :
          update_user_endpoint(t, id, u[1], u[2], u[3])
    \/ \E d \in TickSteps : now + d <= MaxTime /\ Tick(d)

SpecUnlock == Init /\ [][NextUnlock]_vars

\* the clock moves by half a session lifetime, up to two lifetimes: a
\* session is met before, at and after its expiry
SessionTickSteps == {SessionMinutes \div 2}

SessionHorizon == 2 * SessionMinutes

(* Sessions: logins with current credentials, for up to MaxTokens tokens,  *)
(* logout, validation, and the passage of time across a session's expiry.  *)
NextSession ==
    \/ \E n \in Names, p \in Passwords : RoomForUser /\ initial_setup(n, p)
    \/ \E n \in Names, p \in Passwords :
          next_token <= MaxTokens /\ GoodLogin(n, p) /\ login(n, p)
    \/ \E t \in TokenInputs : logout(t)
    \/ \E t \in TokenInputs : validate_session(t)
    \/ \E d \in SessionTickSteps : now + d <= SessionHorizon /\ Tick(d)

SpecSession == Init /\ [][NextSession]_vars

(* Concurrent deletions: up to MaxTokens sessions at once, held by the     *)
(* accounts an Admin has created, and DELETE requests whose checks and      *)
(* whose row removals are served in any order.  No time passes.            *)
NextRace ==
    \/ \E n \in Names, p \in Passwords : RoomForUser /\ initial_setup(n, p)
    \/ \E n \in Names, p \in Passwords :
          next_token <= MaxTokens /\ GoodLogin(n, p) /\ login(n, p)
    \/ \E t \in TokenInputs, n \in Names, p \in Passwords, r \in RoleInputs :
          RoomForUser /\ create_user_endpoint(t, n, p, r)
    \/ \E t \in TokenInputs, id \in UserIds : delete_user_begin(t, id)
    \/ \E req \in pending : delete_user_commit(req)

SpecRace == Init /\ [][NextRace]_vars

(* The directory under several sessions at once: accounts created,        *)
(* promoted, demoted and deleted through up to MaxTokens sessions that stay *)
(* open across those changes, each request served whole.  No time passes.  *)
NextStale ==
    \/ \E n \in Names, p \in Passwords :
          CreateFits(NoUser, n, p, ROLE_ADMIN) /\ initial_setup(n, p)
    \/ \E n \in Names, p \in Passwords :
          next_token <= MaxTokens /\ GoodLogin(n, p) /\ login(n, p)
    \/ \E t \in TokenInputs, n \in Names, p \in Passwords, r \in RoleInputs :
          /\ CreateFits(get_current_user_token(sessions, now, t).user, n, p, r)
          /\ create_user_endpoint(t, n, p, r)
    \/ \E t \in TokenInputs, id \in UserIds, u \in RoleUpdates :
          update_user_endpoint(t, id, u[1], u[2], u[3])
    \/ \E t \in TokenInputs, id \in UserIds : delete_user_endpoint(t, id)

SpecStale == Init /\ [][NextStale]_vars

\* role and status are free strings of the request models: the values of the
\* two enumerations and one string outside each
AnyRoles == RoleInputs \cup {"Guest"}

AnyStatuses == StatusInputs \cup {"Locked", "Banned"}

(* Role and status as the requests carry them: creations and updates       *)
(* through the session of an Admin, with any string for the two fields.    *)
NextFields ==
    \/ \E n \in Names, p \in Passwords :
          CreateFits(NoUser, n, p, ROLE_ADMIN) /\ initial_setup(n, p)
    \/ \E n \in Names, p \in Passwords :
          RoomForSession /\ GoodLogin(n, p) /\ login(n, p)
    \/ \E t \in TokenInputs : logout(t)
    \/ \E t \in TokenInputs, n \in Names, p \in Passwords, r \in AnyRoles :
          /\ CreateFits(get_current_user_token(sessions, now, t).user, n, p, r)
          /\ create_user_endpoint(t, n, p, r)
    \/ \E t \in TokenInputs, id \in UserIds, r \in AnyRoles :
          update_user_endpoint(t, id, "", r, "")
    \/ \E t \in TokenInputs, id \in UserIds, st \in AnyStatuses :
          update_user_endpoint(t, id, "", "", st)

SpecFields == Init /\ [][NextFields]_vars

\* a token that no login issues
ForgedToken == MaxTokens + 1

(* Validation of tokens that are live, expired, logged out and never       *)
(* issued, as the clock passes the expiry of the sessions.                 *)
NextExpiry ==
    \/ \E n \in Names, p \in Passwords : RoomForUser /\ initial_setup(n, p)
    \/ \E n \in Names, p \in Passwords :
          next_token <= MaxTokens /\ GoodLogin(n, p) /\ login(n, p)
    \/ \E t \in TokenInputs : logout(t)
    \/ \E t \in TokenInputs \cup {ForgedToken} : validate_session(t)
    \/ \E d \in SessionTickSteps : now + d <= SessionHorizon /\ Tick(d)

SpecExpiry == Init /\ [][NextExpiry]_vars

(* The activity log while the sheet is and is not reachable: logins that   *)
(* fail and succeed, and the operations of the directory that write a row  *)
(* and then log.  No time passes.                                          *)
NextLog ==
    \/ \E n \in LoginNames, p \in Passwords : RoomForUser /\ initial_setup(n, p)
    \/ \E n \in LoginNames, p \in Passwords : LoginFits(n, p) /\ login(n, p)
    \/ \E t \in TokenInputs : logout(t)
    \/ \E t \in TokenInputs, n \in Names, p \in Passwords, r \in RoleInputs :
          RoomForUser /\ create_user_endpoint(t, n, p, r)
    \/ \E t \in TokenInputs, c \in Passwords, p \in Passwords :
          change_password_endpoint(t, c, p)
    \/ \E b \in BOOLEAN : b /= log_up /\ set_log_up(b)

SpecLog == Init /\ [][NextLog]_vars

(* The permission predicate, applied to every kind of identity an          *)
(* InventoryManager can be handed: none, a record with no Role column, and *)
(* rows with a recognised, an unrecognised or an empty role.               *)
PermRoles == {ROLE_ADMIN, ROLE_STAFF, "admin", "Guest", ""}

PermIdentities ==
    {NoUser}
        \cup {[User_ID |-> i, Username |-> "al"] : i \in UserIds}
        \cup {[User_ID |-> i, Username |-> "al",
               Password_Hash |-> hash_password("p1"),
               Role |-> r, Account_Status |-> st] :
                   i \in UserIds, r \in PermRoles, st \in StatusInputs}

PermInputs ==
    {PERM_ADD_ITEM, PERM_EDIT_ITEM, PERM_DELETE_ITEM, PERM_RESTOCK,
     PERM_MANAGE_USERS, PERM_VIEW_REPORTS, "export"}

InitPerm ==
    /\ users = <<>>
    /\ sessions = <<>>
    /\ failed_login_attempts = EmptyTable
    /\ now = 0
    /\ next_token = 1
    /\ last = Response("init", 0, 0, "None")
    /\ current_user \in PermIdentities
    /\ checked = NotChecked
    /\ logged = <<>>
    /\ log_up = TRUE
    /\ pending = {}
    /\ inventory = <<>>
    /\ orders = 0

NextPerm == \E p \in PermInputs : check_permission_call(p)

SpecPerm == InitPerm /\ [][NextPerm]_vars

MaxItems == 2
MaxStock == 4
MaxOrders == 2

ItemIds == 1..MaxItems

\* quantities entered for a new item and for a delivery
Quantities == {0, 1, 2}

\* room for one more item row
RoomForItem == Len(inventory) < MaxItems

\* the stock of every item within the bound
StockFits(inv) == \A i \in 1..Len(inv) : inv[i].Quantity_In_Stock <= MaxStock

\* quantities asked for in a sale: qty is any integer of the request
SaleQuantities == {-1, 1, 2, 3}

(* Sales: items added and sold through a session, each request served      *)
(* whole.  No time passes.                                                 *)
NextSale ==
    \/ \E n \in Names, p \in Passwords : RoomForUser /\ initial_setup(n, p)
    \/ \E n \in Names, p \in Passwords :
          RoomForSession /\ GoodLogin(n, p) /\ login(n, p)
    \/ \E t \in TokenInputs : logout(t)
    \/ \E t \in TokenInputs, q \in Quantities : RoomForItem /\ add_item(t, q)
    \/ \E t \in TokenInputs, id \in ItemIds, q \in SaleQuantities :
          /\ StockFits(sale_outcome(inventory, id, q, FindItem(inventory, id),
                  IF FindItem(inventory, id) = 0 THEN 0
                  ELSE inventory[FindItem(inventory, id)].Quantity_In_Stock).inventory)
          /\ record_sale(t, id, q)

SpecSale == Init /\ [][NextSale]_vars

InitInv ==
    /\ users = <<>>
    /\ sessions = <<>>
    /\ failed_login_attempts = EmptyTable
    /\ now = 0
    /\ next_token = 1
    /\ last = Response("init", 0, 0, "None")
    /\ current_user \in PermIdentities
    /\ checked = NotChecked
    /\ logged = <<>>
    /\ log_up = TRUE
    /\ pending = {}
    /\ inventory = <<>>
    /\ orders = 0

(* The InventoryManager on every kind of identity it can be handed: items  *)
(* added and restocked, present or not, within the bounds.                 *)
NextInv ==
    \/ \E q \in Quantities : RoomForItem /\ add_new_item_call(q)
    \/ \E id \in ItemIds, q \in Quantities :
          /\ orders < MaxOrders
          /\ StockFits(restock_item(inventory, orders, current_user, id, q).inventory)
          /\ restock_item_call(id, q)

SpecInv == InitInv /\ [][NextInv]_vars

(* Own passwords: several sessions at once, users created and deleted      *)
(* between the login of a session and its use, and a third username so     *)
(* that a row created after a deletion can differ from the one deleted.    *)

CredNames == Names \cup {"cy"}

NextCred ==
    \/ \E n \in Names, p \in Passwords :
          CreateFits(NoUser, n, p, ROLE_ADMIN) /\ initial_setup(n, p)
    \/ \E n \in CredNames, p \in Passwords :
          next_token <= MaxTokens /\ GoodLogin(n, p) /\ login(n, p)
    \/ \E t \in TokenInputs, n \in CredNames, p \in Passwords, r \in RoleInputs :
          /\ CreateFits(get_current_user_token(sessions, now, t).user, n, p, r)
          /\ create_user_endpoint(t, n, p, r)
    \/ \E t \in TokenInputs, id \in UserIds : delete_user_endpoint(t, id)
    \/ \E t \in TokenInputs, c \in Passwords, p \in Passwords :
          change_password_endpoint(t, c, p)

SpecCred == Init /\ [][NextCred]_vars

(* The management endpoints next to the two server tables: sessions of     *)
(* several users, failed logins on record, and time enough for a session   *)
(* to expire.                                                              *)

\* one step of the clock takes a session past its lifetime
FrameTickSteps == {SessionMinutes + 1}

\* a login the bounds have room for: one that opens a session while a
\* token is left, or one that fails while no failure is on record
FrameLoginFits(n, p) ==
    IF GoodLogin(n, p) THEN next_token <= MaxTokens
    ELSE failed_login_attempts = EmptyTable

NextFrame ==
    \/ \E n \in LoginNames, p \in Passwords : RoomForUser /\ initial_setup(n, p)
    \/ \E n \in Names, p \in Passwords : FrameLoginFits(n, p) /\ login(n, p)
    \/ \E t \in TokenInputs, n \in Names, r \in RoleInputs :
          /\ CreateFits(get_current_user_token(sessions, now, t).user, n, "p1", r)
          /\ create_user_endpoint(t, n, "p1", r)
    \/ \E t \in TokenInputs, id \in UserIds, u \in StatusUpdates :
          update_user_endpoint(t, id, u[1], u[2], u[3])
    \/ \E t \in TokenInputs, id \in UserIds : delete_user_endpoint(t, id)
    \/ \E t \in TokenInputs, id \in UserIds :
          reset_user_password_endpoint(t, id, "p2")
    \/ \E t \in TokenInputs, c \in Passwords :
          change_password_endpoint(t, c, "p2")
    \/ \E d \in FrameTickSteps : now + d <= SessionHorizon /\ Tick(d)

SpecFrame == Init /\ [][NextFrame]_vars

(* Concurrent creations: at most two requests past their checks at once.   *)

\* room for the rows of the requests waiting and of one more
RoomForRequest == Len(users) + Cardinality(pending) <= MaxUsers

NextCreate ==
    \/ \E n \in Names, p \in Passwords : RoomForUser /\ initial_setup(n, p)
    \/ \E n \in Names, p \in Passwords :
          next_token <= MaxTokens /\ GoodLogin(n, p) /\ login(n, p)
    \/ \E t \in TokenInputs, n \in CredNames, p \in Passwords, r \in RoleInputs :
          /\ create_user(users, get_current_user_token(sessions, now, t).user,
                         n, p, r).exc = "None" => RoomForRequest
          /\ create_user_begin(t, n, p, r)
    \/ \E req \in pending : create_user_commit(req)

SpecCreate == Init /\ [][NextCreate]_vars

(* Concurrent sales: at most two requests past the stock check at once.    *)

RaceQuantities == {1, 2, 3}

\* a sale request the bounds have room for: one that is refused, or one
\* that waits with at most one other
SaleFits(id, q) ==
    IF FindItem(inventory, id) = 0 THEN TRUE
    ELSE IF inventory[FindItem(inventory, id)].Quantity_In_Stock < q THEN TRUE
    ELSE Cardinality(pending) <= 1

NextSaleRace ==
    \/ \E n \in Names, p \in Passwords : RoomForUser /\ initial_setup(n, p)
    \/ \E n \in Names, p \in Passwords :
          RoomForSession /\ GoodLogin(n, p) /\ login(n, p)
    \/ \E t \in TokenInputs, q \in Quantities : RoomForItem /\ add_item(t, q)
    \/ \E t \in TokenInputs, id \in ItemIds, q \in RaceQuantities :
          SaleFits(id, q) /\ record_sale_begin(t, id, q)
    \/ \E req \in pending : record_sale_commit(req)

SpecSaleRace == Init /\ [][NextSaleRace]_vars

---------------------------------------------------------------------------
(* Properties *)

Rows == 1..Len(users)

\* the row that holds username, compared case-insensitively (0 when none)
RowOfName(n) ==
    LET Hit(r) == Lower(r.Username) = Lower(n) IN FirstIdx(users, Hit)

ActiveAdminExists ==
    \E i \in Rows : users[i].Role = ROLE_ADMIN /\ users[i].Account_Status = "Active"

\* C1: after a deleteUser or updateUser operation has completed, the user
\* directory holds at least one identity with role Admin and status Active.
C1_ActiveAdminRemains ==
    (last.op \in {"update_user", "delete_user"} /\ last.status = 200)
        => ActiveAdminExists

\* the lockout window of username u is running
InWindow(u) ==
    /\ u \in DOMAIN failed_login_attempts
    /\ failed_login_attempts[u].locked_until /= None
    /\ now < failed_login_attempts[u].locked_until

\* the lockout of username u has run out
Elapsed(u) ==
    /\ u \in DOMAIN failed_login_attempts
    /\ failed_login_attempts[u].locked_until /= None
    /\ now >= failed_login_attempts[u].locked_until

\* consecutive failures recorded for u that still count
PriorCount(u) ==
    IF u \in DOMAIN failed_login_attempts /\ ~Elapsed(u)
    THEN failed_login_attempts[u].count ELSE 0

\* a failed login: no account of that name has this password
BadCredentials(n, p) ==
    \A i \in Rows : Lower(users[i].Username) = Lower(n)
                        => ~verify_password(p, users[i].Password_Hash)

\* C2: each failed login outside a lockout window adds one to the count of
\* the username (case-insensitive); the fifth consecutive one locks it until
\* exactly 10 minutes later; every login inside the window is rejected with
\* 403, issues no session and leaves the failed-attempt table unchanged.
C2_LockoutAfterFive ==
    [][\A n \in LoginNames, p \in Passwords :
        login(n, p) =>
            LET u == Lower(n) IN
            /\ InWindow(u) =>
                  /\ last'.status = 403
                  /\ sessions' = sessions
                  /\ failed_login_attempts' = failed_login_attempts
            /\ (~InWindow(u) /\ BadCredentials(n, p)) =>
                  /\ u \in DOMAIN failed_login_attempts'
                  /\ failed_login_attempts'[u].count = PriorCount(u) + 1
                  /\ failed_login_attempts'[u].count = LockThreshold =>
                        /\ failed_login_attempts'[u].locked_until = now + LockMinutes
                        /\ last'.status = 403
                  /\ sessions' = sessions]_vars

\* p is the current password of an Active account named n
GoodActive(n, p) ==
    \E i \in Rows : /\ Lower(users[i].Username) = Lower(n)
                    /\ users[i].Account_Status = "Active"
                    /\ verify_password(p, users[i].Password_Hash)

\* C3: once the lockout of a username has run out, a login with the correct
\* password of an Active account succeeds, issues a session for that
\* account and leaves no failed-attempt record for the username.
C3_LoginAfterExpiry ==
    [][last'.op = "login" =>
        \A n \in LoginNames, p \in Passwords :
            (Elapsed(Lower(n)) /\ GoodActive(n, p) /\ login(n, p)) =>
                /\ last'.status = 200
                /\ Len(sessions') = Len(sessions) + 1
                /\ sessions'[Len(sessions')].token = last'.token
                /\ sessions'[Len(sessions')].user.User_ID = users[RowOfName(n)].User_ID
                /\ get_current_user_token(sessions', now', last'.token).ok
                /\ Lower(n) \notin DOMAIN failed_login_attempts']_vars

\* a locked username whose lockout has run out, held by an Active account,
\* with a login about to be served
C3_Witness ==
    \E n \in LoginNames :
        /\ Elapsed(Lower(n))
        /\ failed_login_attempts[Lower(n)].count = LockThreshold
        /\ \E p \in Passwords : GoodActive(n, p)
        /\ RoomForSession

\* C4: a login issues a session that expires exactly 8 hours later and
\* validates to the account that logged in; a session validates unchanged
\* (same identity, same expiry) after every step that leaves the clock at or
\* before its expiry, unless that step is the logout of its own token; past
\* its expiry it is rejected.
C4_TokenValidUntilExpiry ==
    [][/\ \A n \in Names, p \in Passwords :
            (login(n, p) /\ last'.status = 200) =>
                LET v == get_current_user_token(sessions', now', last'.token) IN
                /\ v.ok
                /\ v.user.User_ID = users[RowOfName(n)].User_ID
                /\ sessions'[SessionIdx(sessions', last'.token)].expires_at
                       = now + SessionMinutes
       /\ \A i \in 1..Len(sessions) :
            LET s == sessions[i] IN
            /\ (now' <= s.expires_at /\ ~logout(s.token)) =>
                   /\ get_current_user_token(sessions', now', s.token).ok
                   /\ get_current_user_token(sessions', now', s.token).user = s.user
                   /\ sessions'[SessionIdx(sessions', s.token)].expires_at = s.expires_at
            /\ now' > s.expires_at =>
                   ~get_current_user_token(sessions', now', s.token).ok]_vars

\* C5: right after a logout served for a valid token, that token no longer
\* validates, whatever other sessions the table holds.
C5_LogoutInvalidatesToken ==
    [][\A t \in TokenInputs :
        (logout(t) /\ get_current_user_token(sessions, now, t).ok) =>
            ~get_current_user_token(sessions', now', t).ok]_vars

C7_BootstrapCreatesAdmin ==
    [][Len(users) = 0 =>
        \A n \in Names, p \in Passwords :
            (initial_setup(n, p) \/ first_time_setup(n, p)) =>
                /\ last'.exc = "None"
                /\ last'.status = IF last'.op = "initial_setup" THEN 200 ELSE 0
                /\ Len(users') = 1
                /\ users'[1].Username = n
                /\ users'[1].Role = ROLE_ADMIN
                /\ authenticate(users', n, p).user = users'[1]]_vars

\* the first account has just been created with no caller
C7_Witness ==
    /\ last.op \in {"initial_setup", "first_time_setup"}
    /\ last.exc = "None"
    /\ Len(users) = 1
    /\ users[1].Role = ROLE_ADMIN

\* some account already holds the username n, in any spelling
NameTaken(n) == \E i \in Rows : Lower(users[i].Username) = Lower(n)

C8_ConflictReached ==
    /\ last.op = "create_user" /\ last.status = 400
    /\ get_current_user_token(sessions, now, last.token).user.Role = ROLE_ADMIN

\* a creation with no caller has just been refused
C8_NoCallerReached ==
    /\ Len(users) > 0
    /\ last.op = "first_time_setup" /\ last.exc = "PermissionError"

\* C9: a deletion through the session of an Admin caller is refused with
\* 403 and changes nothing when the target is the caller, or when the
\* target is an Admin and the directory holds one Admin; when the target is
\* another account and it is Staff or the directory holds two Admins or
\* more, it returns 200 and removes that account and no other.
C9_DeleteUserGuards ==
    [][last'.op = "delete_user" =>
        LET t == last'.token
            v == get_current_user_token(sessions, now, t)
        IN
        \A id \in UserIds :
            LET target == get_user_by_id(users, id)
                Others(r) == r.User_ID /= id
            IN
            (v.ok /\ v.user.Role = ROLE_ADMIN /\ delete_user_endpoint(t, id)) =>
                /\ id = v.user.User_ID =>
                      last'.status = 403 /\ users' = users
                /\ (/\ target /= NoUser
                    /\ target.Role = ROLE_ADMIN
                    /\ admin_count(users) = 1) =>
                      last'.status = 403 /\ users' = users
                /\ (/\ target /= NoUser
                    /\ id /= v.user.User_ID
                    /\ target.Role = ROLE_STAFF \/ admin_count(users) >= 2) =>
                      /\ last'.status = 200
                      /\ users' = SelectSeq(users, Others)
                      /\ Len(users') = Len(users) - 1]_vars

\* a deletion by an Admin caller has just removed the other account
C9_Witness ==
    /\ last.op = "delete_user" /\ last.status = 200
    /\ get_current_user_token(sessions, now, last.token).user.Role = ROLE_ADMIN
    /\ Len(users) = MaxUsers - 1

\* the stored row of the account behind token t
StoredRow(t) ==
    get_user_by_id(users, get_current_user_token(sessions, now, t).user.User_ID)

\* C10: a password change through a session whose account is in the
\* directory is refused with 403, the stored hash unchanged, when the
\* current password supplied is not the account's stored one; when it is,
\* the change returns 200, after which (the account being Active)
\* authenticate accepts the new password and rejects the old one.
C10_ChangeOwnPassword ==
    [][last'.op = "change_password" =>
        LET t == last'.token
            v == get_current_user_token(sessions, now, t)
            id == v.user.User_ID
            row == StoredRow(t)
        IN
        \A c \in Passwords, p \in Passwords :
            (v.ok /\ row /= NoUser /\ change_password_endpoint(t, c, p)) =>
                IF ~verify_password(c, row.Password_Hash)
                THEN /\ last'.status = 403
                     /\ get_user_by_id(users', id).Password_Hash = row.Password_Hash
                ELSE /\ last'.status = 200
                     /\ row.Account_Status = "Active" =>
                           /\ authenticate(users', row.Username, p).user.User_ID = id
                           /\ c /= p =>
                                 authenticate(users', row.Username, c).user = NoUser]_vars

\* C11: a password change through a session whose account is in the
\* directory succeeds exactly when the current password supplied verifies
\* against the hash stored for that account at that moment (the one
\* authenticate checks), whatever password changes or resets have happened
\* since the session's login.
C11_ChangeVerifiesStoredCredential ==
    [][last'.op = "change_password" =>
        LET t == last'.token
            v == get_current_user_token(sessions, now, t)
            row == StoredRow(t)
        IN
        \A c \in Passwords, p \in Passwords :
            (v.ok /\ row /= NoUser /\ change_password_endpoint(t, c, p)) =>
                (last'.status = 200
                    <=> verify_password(c, row.Password_Hash))]_vars

\* C12: no two accounts of the directory have usernames that are equal when
\* compared without regard to case.
C12_UsernamesUnique ==
    \A i \in Rows, j \in Rows :
        i /= j => Lower(users[i].Username) /= Lower(users[j].Username)

\* with an account named "AL" and an account of another name in the
\* directory, a rename of one to the username of the other has just been
\* refused
C12_Witness ==
    /\ last.op = "update_user" /\ last.status = 400 /\ last.exc = "ValueError"
    /\ \E i \in Rows, j \in Rows :
          /\ i /= j
          /\ users[i].Username = "AL"
          /\ Lower(users[j].Username) /= "al"

\* the fixed table of the permission model
Granted(role, permission) ==
    \/ /\ role = "Admin"
       /\ permission \in {"add_item", "edit_item", "delete_item", "restock",
                          "manage_users", "view_reports"}
    \/ /\ role = "Staff"
       /\ permission \in {"add_item", "edit_item", "restock", "view_reports"}

NonAdminCallers ==
    {c \in PermIdentities :
        c = NoUser \/ ("Role" \in DOMAIN c /\ c.Role /= ROLE_ADMIN)}

Refused(us) == [exc |-> "PermissionError", users |-> us]

\* C14: on every directory reached, update_user, delete_user and
\* reset_user_password raise PermissionError and leave the directory as it
\* is for every caller that is not Admin (no caller, Staff, an unrecognised
\* or empty role), whatever the target (present or not) and the other
\* arguments; through a session held by a non-Admin the three endpoints
\* answer 403.
C14_NonAdminForbidden ==
    /\ \A c \in NonAdminCallers, id \in 1..(MaxUserId + 1) :
          /\ \A u \in UpdateInputs :
                update_user(users, c, id, u[1], u[2], u[3]) = Refused(users)
          /\ delete_user(users, c, id) = Refused(users)
          /\ \A p \in Passwords :
                reset_user_password(users, c, id, p) = Refused(users)
    /\ last.op \in {"update_user", "delete_user", "reset_user_password"} =>
          LET v == get_current_user_token(sessions, now, last.token) IN
          (v.ok /\ v.user.Role /= ROLE_ADMIN) =>
              last.status = 403 /\ last.exc = "PermissionError"

\* a password reset through the session of a Staff caller has just been
\* refused
C14_Witness ==
    /\ last.op = "reset_user_password" /\ last.status = 403
    /\ get_current_user_token(sessions, now, last.token).user.Role = ROLE_STAFF
    /\ Len(users) > 0

\* p is the current password of an account named n that is not Active
GoodInactive(n, p) ==
    \E i \in Rows : /\ Lower(users[i].Username) = Lower(n)
                    /\ users[i].Account_Status /= "Active"
                    /\ verify_password(p, users[i].Password_Hash)

\* C15: a login outside a lockout window with the correct password of an
\* account whose status is not Active is answered 403 (Forbidden), not 401
\* and not 500, and issues no session.
C15_InactiveLoginForbidden ==
    [][last'.op = "login" =>
        \A n \in LoginNames, p \in Passwords :
            (~InWindow(Lower(n)) /\ GoodInactive(n, p) /\ login(n, p)) =>
                /\ last'.status = 403
                /\ sessions' = sessions]_vars

\* what a login that fails on its credentials is answered, as a function of
\* the failures already counted for the username and of nothing else
InvalidCredentialsStatus(count) ==
    IF count + 1 >= LockThreshold THEN 403 ELSE 401

\* C16: outside a lockout window, a login under a username that no account
\* holds and a login with a wrong password for a username that an account
\* holds are answered alike: the status depends only on the failures
\* already counted for the username, the failure is counted, and no
\* session is issued.
C16_NoUsernameEnumeration ==
    [][last'.op = "login" =>
        \A n \in LoginNames, p \in Passwords :
            LET u == Lower(n) IN
            (~InWindow(u) /\ BadCredentials(n, p) /\ login(n, p)) =>
                /\ last'.status = InvalidCredentialsStatus(PriorCount(u))
                /\ last'.exc = "HTTPException"
                /\ u \in DOMAIN failed_login_attempts'
                /\ failed_login_attempts'[u].count = PriorCount(u) + 1
                /\ sessions' = sessions]_vars

\* the session of token t is held by an account whose stored role or status
\* is no longer the one of the session's snapshot
Stale(t) ==
    LET v == get_current_user_token(sessions, now, t)
        row == get_user_by_id(users, v.user.User_ID)
    IN  /\ v.ok
        /\ row /= NoUser
        /\ row.Role /= v.user.Role \/ row.Account_Status /= v.user.Account_Status

\* C17: an update of an account leaves every session as it is; a session
\* that is not expired and not removed by a logout keeps validating to the
\* snapshot taken at its login, whatever happens to the stored row; and the
\* user management endpoints decide on the role of the snapshot: a creation
\* or a password reset is refused for want of the Admin role exactly when
\* the snapshot's role is not Admin.
C17_SessionKeepsSnapshot ==
    [][/\ last'.op = "update_user" => sessions' = sessions
       /\ \A i \in 1..Len(sessions) :
            LET s == sessions[i] IN
            (now' <= s.expires_at /\ last'.op /= "logout") =>
                /\ get_current_user_token(sessions', now', s.token).ok
                /\ get_current_user_token(sessions', now', s.token).user = s.user
       /\ (last'.op = "login" /\ last'.status = 200) =>
            \E i \in Rows :
                get_current_user_token(sessions', now', last'.token).user
                    = Snapshot(users[i])
       /\ (last'.op \in {"create_user", "reset_user_password"} /\ Len(users) > 0) =>
            LET v == get_current_user_token(sessions, now, last'.token) IN
            v.ok => (last'.exc = "PermissionError" <=> v.user.Role /= ROLE_ADMIN)]_vars

\* an account was created through a session whose snapshot is an Active
\* Admin while the stored row of its holder is no longer one
C17_Witness ==
    /\ last.op = "create_user" /\ last.status = 200
    /\ Stale(last.token)
    /\ get_current_user_token(sessions, now, last.token).user.Role = ROLE_ADMIN

\* C18: an unlock requested through the session of an Admin removes the
\* failed-attempt record of the username, in whatever case it is written,
\* whatever the record's count and however much of a lockout remains, and
\* leaves the rest of the table alone, so that a login with the current
\* password of an Active account that follows succeeds; requested through
\* the session of a caller who is not Admin it is answered 403 and leaves
\* the table as it is.
C18_AdminUnlock ==
    [][/\ last'.op = "unlock_account" =>
            LET t == last'.token
                v == get_current_user_token(sessions, now, t)
            IN
            \A n \in LoginNames :
                (v.ok /\ unlock_account(t, n)) =>
                    IF v.user.Role = ROLE_ADMIN
                    THEN /\ last'.status = 200
                         /\ Lower(n) \notin DOMAIN failed_login_attempts'
                         /\ \A k \in DOMAIN failed_login_attempts \ {Lower(n)} :
                               /\ k \in DOMAIN failed_login_attempts'
                               /\ failed_login_attempts'[k] = failed_login_attempts[k]
                    ELSE /\ last'.status = 403
                         /\ failed_login_attempts' = failed_login_attempts
       /\ last'.op = "login" =>
            \A n \in LoginNames, p \in Passwords :
                (/\ Lower(n) \notin DOMAIN failed_login_attempts
                 /\ GoodActive(n, p)
                 /\ login(n, p)) =>
                    last'.status = 200]_vars

\* the username is locked with time left in its window, and an Admin holds
\* a session through which the unlock is about to be served
C18_Witness ==
    /\ InWindow("al")
    /\ failed_login_attempts["al"].locked_until - now > 1
    /\ \E i \in 1..Len(sessions) :
          /\ sessions[i].user.Role = ROLE_ADMIN
          /\ get_current_user_token(sessions, now, sessions[i].token).ok

\* an unlock through the session of a Staff member has just been refused,
\* the record still in the table
C18_RefusalReached ==
    /\ last.op = "unlock_account" /\ last.status = 403
    /\ "al" \in DOMAIN failed_login_attempts

\* the failures counted for username u in table f (none: 0)
CountOf(f, u) == IF u \in DOMAIN f THEN f[u].count ELSE 0

\* C19: a successful login removes the failed-attempt record of its
\* username; no step adds more than one to the count of a username, and
\* only a failed login adds one; a username is locked only with the count
\* at five or more.  So a lock takes five failures with no success in
\* between, and runs of up to four failures each ended by a success never
\* lock.
C19_OnlyConsecutiveFailuresCount ==
    [][/\ \A u \in DOMAIN failed_login_attempts' :
            /\ failed_login_attempts'[u].count
                   <= CountOf(failed_login_attempts, u) + 1
            /\ failed_login_attempts'[u].count > CountOf(failed_login_attempts, u)
                   => (last'.op = "login" /\ last'.status \in {401, 403})
            /\ failed_login_attempts'[u].locked_until /= None
                   => failed_login_attempts'[u].count >= LockThreshold
       /\ (last'.op = "login" /\ last'.status = 200) =>
            \A n \in LoginNames, p \in Passwords :
                login(n, p) => Lower(n) \notin DOMAIN failed_login_attempts']_vars

\* four failures are counted for the username, it is not locked, and a
\* login with the current password of its Active account is about to be
\* served
C19_Witness ==
    /\ "al" \in DOMAIN failed_login_attempts
    /\ failed_login_attempts["al"].count = LockThreshold - 1
    /\ failed_login_attempts["al"].locked_until = None
    /\ \E n \in LoginNames, p \in Passwords : GoodActive(n, p)
    /\ RoomForSession

\* C20: a login that succeeds appends one session, under a token that no
\* session of the table carries, and leaves every session already there in
\* place, unchanged, and valid if it was; sessions of the account logging
\* in are no exception.
C20_LoginAddsSession ==
    [][last'.op = "login" =>
        \A n \in Names, p \in Passwords :
            (login(n, p) /\ last'.status = 200) =>
                /\ Len(sessions') = Len(sessions) + 1
                /\ sessions'[Len(sessions')].token = last'.token
                /\ \A i \in 1..Len(sessions) :
                      /\ sessions'[i] = sessions[i]
                      /\ sessions[i].token /= last'.token
                      /\ get_current_user_token(sessions, now, sessions[i].token).ok
                            => get_current_user_token(sessions', now', sessions[i].token).ok
                /\ get_current_user_token(sessions', now', last'.token).ok]_vars

\* a login has just given an account a second session, the first still
\* valid
C20_Witness ==
    /\ last.op = "login" /\ last.status = 200
    /\ \E i \in 1..Len(sessions), j \in 1..Len(sessions) :
          /\ i /= j
          /\ sessions[j].token = last.token
          /\ sessions[i].user.User_ID = sessions[j].user.User_ID
          /\ get_current_user_token(sessions, now, sessions[i].token).ok
          /\ get_current_user_token(sessions, now, sessions[j].token).ok

---------------------------------------------------------------------------
(* Activity log *)

\* the operations that change the directory, the sessions or the
\* failed-attempt table, by the name their response carries
MutatingOps == {"initial_setup", "first_time_setup", "login", "logout",
                "create_user", "update_user", "delete_user",
                "reset_user_password", "change_password", "unlock_account"}

\* the last operation went through
Succeeded(resp) ==
    IF resp.op = "first_time_setup" THEN resp.status = 0 ELSE resp.status = 200

\* the identity on whose behalf the step's operation ran: the account that
\* logged in, the account created by a bootstrap, else the one the bearer
\* token is bound to
CallerOfStep ==
    IF last'.op = "login"
    THEN sessions'[SessionIdx(sessions', last'.token)].user.User_ID
    ELSE IF last'.op \in {"initial_setup", "first_time_setup"}
    THEN users'[Len(users')].User_ID
    ELSE sessions[SessionIdx(sessions, last'.token)].user.User_ID

\* C21: every successful mutating operation (login, logout, create, update,
\* delete, reset, change of own password, unlock) appends exactly one
\* Activity Log entry whose actor is the caller (for a bootstrap: the new
\* user), and an operation that is refused appends none.  Requests are the
\* steps that leave the clock alone.
C21_MutationsAreLogged ==
    [][now' = now /\ last'.op \in MutatingOps =>
          IF Succeeded(last')
          THEN Len(logged') = 1 /\ logged'[1].User_ID = CallerOfStep
          ELSE logged' = <<>>]_vars

\* the same statement for the operations other than logout and unlock
C21_LoggedExceptLogoutUnlock ==
    [][now' = now /\ last'.op \in MutatingOps \ {"logout", "unlock_account"} =>
          IF Succeeded(last')
          THEN Len(logged') = 1 /\ logged'[1].User_ID = CallerOfStep
          ELSE logged' = <<>>]_vars

\* C22: a failure of the Activity Log append does not abort the operation
\* that logs: with the log sheet unreachable, a login outside a lockout
\* window with the current password of an Active account still returns 200,
\* issues a session for the account and removes the failed-attempt record
\* of the username.
C22_LoginSurvivesLogFailure ==
    [][~log_up /\ last'.op = "login" =>
        \A n \in LoginNames, p \in Passwords :
            (~InWindow(Lower(n)) /\ GoodActive(n, p) /\ login(n, p)) =>
                /\ last'.status = 200
                /\ Len(sessions') = Len(sessions) + 1
                /\ sessions'[Len(sessions')].token = last'.token
                /\ Lower(n) \notin DOMAIN failed_login_attempts']_vars

\* the same login while the log sheet is reachable
C22_LoginWhileLogUp ==
    [][log_up /\ last'.op = "login" =>
        \A n \in LoginNames, p \in Passwords :
            (~InWindow(Lower(n)) /\ GoodActive(n, p) /\ login(n, p)) =>
                /\ last'.status = 200
                /\ Len(sessions') = Len(sessions) + 1
                /\ sessions'[Len(sessions')].token = last'.token
                /\ Lower(n) \notin DOMAIN failed_login_attempts']_vars

---------------------------------------------------------------------------
(* Renames and absent targets *)

\* the values an update request can carry for a field, "" when it carries none
OrNone(S) == S \cup {""}

\* username n, in any spelling, is held by an account other than user_id
HeldByOther(user_id, n) ==
    \E i \in Rows : users[i].User_ID /= user_id /\ Lower(users[i].Username) = Lower(n)

\* C23: on every directory reached, an update by an Admin that carries a
\* username held (in any spelling) by another account raises ValueError,
\* which the endpoint answers 400, and changes no field and logs nothing,
\* whatever role and status the request carries as well; a username that
\* collides with nothing but the target's own current one is written, along
\* with the other fields supplied.
C23_RenameCollisionRefused ==
    \A a \in Rows : users[a].Role = ROLE_ADMIN =>
        \A id \in UserIds, n \in Names, r \in OrNone(RoleInputs),
           st \in OrNone(StatusInputs) :
            LET res == update_user(users, Snapshot(users[a]), id, n, r, st)
                i == FindRow(users, id)
            IN  /\ HeldByOther(id, n) =>
                    /\ res.exc = "ValueError"
                    /\ HttpStatus(res.exc, 400) = 400
                    /\ res.users = users
                    /\ LogOf(res) = <<>>
                /\ (i /= 0 /\ ~HeldByOther(id, n)) =>
                    /\ res.exc = "None"
                    /\ res.users[i].Username = n
                    /\ res.users[i].Role = IF r = "" THEN users[i].Role ELSE r
                    /\ res.users[i].Account_Status =
                           IF st = "" THEN users[i].Account_Status ELSE st

\* an update answered 400 in a directory of two accounts, both in reach of
\* the request: a rename to the name of the other account
C23_Witness ==
    /\ Len(users) = 2
    /\ \A id \in UserIds : FindRow(users, id) /= 0
    /\ last.op = "update_user"
    /\ last.status = 400
    /\ last.exc = "ValueError"
    /\ logged = <<>>

\* the bearer token t is bound to an Admin
AdminToken(t) ==
    LET v == get_current_user_token(sessions, now, t)
    IN  v.ok /\ v.user.Role = ROLE_ADMIN

\* the step serves a management request of an Admin for user id: an update,
\* a delete or a password reset
ManagesId(id) ==
    \/ /\ last'.op = "update_user"
       /\ \E n \in OrNone(Names), r \in OrNone(RoleInputs), st \in OrNone(StatusInputs) :
             update_user_endpoint(last'.token, id, n, r, st)
    \/ /\ last'.op = "delete_user"
       /\ delete_user_endpoint(last'.token, id)
    \/ /\ last'.op = "reset_user_password"
       /\ \E p \in Passwords : reset_user_password_endpoint(last'.token, id, p)

\* C24: an update, a delete and a password reset requested by an Admin for
\* a user id that is not in the directory are each answered with the status
\* of NotFound (404; Conflict is 400, Forbidden 403) and leave the directory
\* as it is.
C24_AbsentIdNotFound ==
    [][last'.op \in {"update_user", "delete_user", "reset_user_password"} =>
        \A id \in UserIds :
            (FindRow(users, id) = 0 /\ AdminToken(last'.token) /\ ManagesId(id)) =>
                /\ last'.status = 404
                /\ users' = users]_vars

\* what the endpoints answer for an absent id: the update 400, like a
\* username conflict, the delete and the reset 404; the directory unchanged
C24_AbsentIdAsAnswered ==
    [][last'.op \in {"update_user", "delete_user", "reset_user_password"} =>
        \A id \in UserIds :
            (FindRow(users, id) = 0 /\ AdminToken(last'.token) /\ ManagesId(id)) =>
                /\ last'.status = IF last'.op = "update_user" THEN 400 ELSE 404
                /\ last'.exc = "ValueError"
                /\ users' = users]_vars

---------------------------------------------------------------------------
(* Logout twice *)

\* C25: logout is idempotent: a logout with the token of the logout that was
\* just served successfully removes no session and leaves the session table
\* as the first call left it.
C25_LogoutIdempotent ==
    [][(last.op = "logout" /\ last.status = 200 /\ now' = now
            /\ last'.token = last.token /\ logout(last.token)) =>
          sessions' = sessions]_vars

---------------------------------------------------------------------------
(* Concurrent requests.  login, logout, validate_session and unlock_account *)
(* are coroutines without an await: the event loop serves each of them to  *)
(* completion before the next, so concurrent logins are the login steps    *)
(* taken in any order.                                                      *)

\* username u is locked in table f
LockedIn(f, u) == u \in DOMAIN f /\ f[u].locked_until /= None

\* the account named n is not Active
NotActive(n) ==
    \E i \in Rows : Lower(users[i].Username) = Lower(n)
                      /\ users[i].Account_Status /= "Active"

\* C26: in every order of login requests for a username, no failed attempt
\* is lost: each login with a wrong password served outside a lockout window
\* leaves the count of the username one above the failures counted so far,
\* so k failures in a row leave the count at k, and the username is locked
\* exactly when the fifth has been served.
C26_NoFailureLost ==
    [][now' = now /\ last'.op = "login" =>
        \A n \in LoginNames, p \in Passwords :
            (~InWindow(Lower(n)) /\ BadCredentials(n, p) /\ login(n, p)) =>
                /\ CountOf(failed_login_attempts', Lower(n)) = PriorCount(Lower(n)) + 1
                /\ LockedIn(failed_login_attempts', Lower(n))
                       <=> PriorCount(Lower(n)) + 1 >= LockThreshold]_vars

\* the same statement for usernames whose account is Active or absent
C26_NoFailureLostOnActive ==
    [][now' = now /\ last'.op = "login" =>
        \A n \in LoginNames, p \in Passwords :
            (~InWindow(Lower(n)) /\ BadCredentials(n, p) /\ ~NotActive(n)
                 /\ login(n, p)) =>
                /\ CountOf(failed_login_attempts', Lower(n)) = PriorCount(Lower(n)) + 1
                /\ LockedIn(failed_login_attempts', Lower(n))
                       <=> PriorCount(Lower(n)) + 1 >= LockThreshold]_vars

\* C27: in every order in which the deletions requested by different Admins
\* are served, a directory that holds an Admin still holds one when no
\* deletion is left in progress.
C27_AdminSurvivesConcurrentDeletes ==
    [][(admin_count(users) >= 1 /\ pending' = {}) => admin_count(users') >= 1]_vars

\* the same, for deletions served one at a time: each request removes its
\* row before the checks of the next are made
C27_AdminSurvivesSerialDeletes ==
    [][(admin_count(users) >= 1 /\ pending' = {} /\ Cardinality(pending) <= 1
            /\ \A req \in pending :
                  delete_user(users, req.admin_user, req.user_id).exc = "None")
          => admin_count(users') >= 1]_vars

---------------------------------------------------------------------------
(* After a lockout *)

\* C28: the lockout check of a login served after the lockout of its
\* username has run out drops the failed-attempt record before the
\* credentials are looked at: a wrong password on that login leaves the
\* username with a fresh record, count 1 and no lock, so that the lock takes
\* five failures again.
C28_ExpiredLockoutCleared ==
    [][now' = now /\ last'.op = "login" =>
        \A n \in LoginNames, p \in Passwords :
            (Elapsed(Lower(n)) /\ BadCredentials(n, p) /\ login(n, p)) =>
                /\ Lower(n) \in DOMAIN failed_login_attempts'
                /\ failed_login_attempts'[Lower(n)] = [count |-> 1, locked_until |-> None]
                /\ last'.status = 401]_vars

\* the same statement for usernames whose account is Active or absent
C28_ExpiredLockoutClearedOnActive ==
    [][now' = now /\ last'.op = "login" =>
        \A n \in LoginNames, p \in Passwords :
            (Elapsed(Lower(n)) /\ BadCredentials(n, p) /\ ~NotActive(n)
                 /\ login(n, p)) =>
                /\ Lower(n) \in DOMAIN failed_login_attempts'
                /\ failed_login_attempts'[Lower(n)] = [count |-> 1, locked_until |-> None]
                /\ last'.status = 401]_vars

---------------------------------------------------------------------------
(* Expired and unknown tokens *)

\* token t is in the session table, past its expiry
ExpiredToken(t) ==
    LET i == SessionIdx(sessions, t)
    IN  t /= 0 /\ i /= 0 /\ now > sessions[i].expires_at

\* C29: the validation of a token whose session has expired is answered
\* exactly as the validation of a token that was never issued: same status,
\* same detail text.
C29_ExpiredLikeUnknown ==
    [][now' = now /\ last'.op = "get_current_user_token" =>
        \A t \in TokenInputs :
            (ExpiredToken(t) /\ validate_session(t)) =>
                /\ last'.status = 401
                /\ last'.detail =
                       get_current_user_token(sessions, now, ForgedToken).detail]_vars

\* the two validations are both refused with 401, and the expired session
\* is removed by the check
C29_ExpiredRefusedAndPurged ==
    [][now' = now /\ last'.op = "get_current_user_token" =>
        \A t \in TokenInputs :
            (ExpiredToken(t) /\ validate_session(t)) =>
                /\ last'.status = 401
                /\ ~get_current_user_token(sessions, now, ForgedToken).ok
                /\ SessionIdx(sessions', t) = 0]_vars

---------------------------------------------------------------------------
(* User ids *)

\* no two rows of sheet us carry the same User_ID
UniqueIds(us) ==
    \A i, j \in 1..Len(us) : us[i].User_ID = us[j].User_ID => i = j

\* the step removes no row and leaves every row its User_ID
IdsKept ==
    Len(users') >= Len(users) => \A i \in Rows : users'[i].User_ID = users[i].User_ID

\* the last operation deleted the account with this id
JustDeleted(id) ==
    /\ last.op = "delete_user"
    /\ last.status = 200
    /\ logged /= <<>>
    /\ logged[1].Details = id

\* C30: user ids are unique and fixed: no step leaves two rows with the same
\* User_ID, no step changes the User_ID of a row, and the id of a deleted
\* account is not given to an account created later (checked for the
\* creation that follows the deletion).
C30_IdsUniqueFixedNeverReused ==
    [][/\ UniqueIds(users')
       /\ IdsKept
       /\ \A id \in UserIds :
             (JustDeleted(id) /\ Len(users') > Len(users)) =>
                 users'[Len(users')].User_ID /= id]_vars

\* the first two parts alone
C30_IdsUniqueAndFixed ==
    [][UniqueIds(users') /\ IdsKept]_vars

---------------------------------------------------------------------------
(* The bootstrap *)

\* C31: the bootstrap exception is one-time: once the directory holds a
\* user, no step leaves it empty, whatever sessions the requests are made
\* through (sessions opened before a role change or a deletion included), so
\* that a creation without an Admin caller cannot succeed again.
C31_DirectoryNeverEmptiedAgain ==
    [][Len(users) > 0 => Len(users') > 0]_vars

\* the same while the directory holds an Admin
C31_NotEmptiedWhileAdminExists ==
    [][admin_count(users) > 0 => Len(users') > 0]_vars

---------------------------------------------------------------------------
(* Role and status values *)

\* C32: every row of the directory has role Admin or Staff and status
\* Active, Suspended or Locked, whatever role and status strings the
\* creations and updates carried.
C32_RoleAndStatusInEnum ==
    \A i \in Rows :
        /\ users[i].Role \in {ROLE_ADMIN, ROLE_STAFF}
        /\ users[i].Account_Status \in {"Active", "Suspended", "Locked"}

\* what the code does guarantee: a row is created Active, with the role the
\* request carried
C32_CreatedActive ==
    [][Len(users') > Len(users) =>
          /\ users'[Len(users')].Account_Status = "Active"
          /\ users'[Len(users')].Role \in AnyRoles]_vars

---------------------------------------------------------------------------
(* Inventory *)

\* C33: inventory mutations are gated by the permission model: add_new_item
\* changes the sheet only for an identity whose role grants add_item, and
\* restock_item only for one whose role grants restock; without the
\* permission (no identity, no or an unrecognised role) the call raises
\* PermissionError and leaves the inventory, the restock orders and the
\* activity log as they are.
C33_InventoryGated ==
    [][/\ last'.op = "add_new_item" =>
            IF check_permission(current_user, PERM_ADD_ITEM)
            THEN last'.exc = "None" /\ Len(inventory') = Len(inventory) + 1
            ELSE /\ last'.exc = "PermissionError"
                 /\ inventory' = inventory /\ orders' = orders /\ logged' = <<>>
       /\ last'.op = "restock_item" =>
            IF check_permission(current_user, PERM_RESTOCK)
            THEN last'.exc = "None"
            ELSE /\ last'.exc = "PermissionError"
                 /\ inventory' = inventory /\ orders' = orders /\ logged' = <<>>]_vars

\* an identity without the permission has just been refused
C33_Witness ==
    /\ last.op \in {"add_new_item", "restock_item"}
    /\ last.exc = "PermissionError"
    /\ ~check_permission(current_user, PERM_ADD_ITEM)
    /\ ~check_permission(current_user, PERM_RESTOCK)

\* an item has been added and restocked by an identity with the permissions
C33_GrantedReached ==
    /\ last.op = "restock_item"
    /\ last.exc = "None"
    /\ orders > 0
    /\ check_permission(current_user, PERM_RESTOCK)

\* the stock of item_id in sheet inv
StockOf(inv, item_id) == inv[FindItem(inv, item_id)].Quantity_In_Stock

\* the bearer token t is accepted
LiveToken(t) == get_current_user_token(sessions, now, t).ok

\* C34: a sale of quantity q of an item in stock s, asked through a session:
\* when q > s it is rejected (400) and the inventory stays as it is;
\* otherwise it is answered 200 and the stock of the item becomes exactly
\* s - q, the other items untouched; and no step leaves an item with a
\* negative stock.
C34_SaleWithinStock ==
    [][/\ last'.op = "record_sale" =>
            \A id \in ItemIds, q \in SaleQuantities :
                (FindItem(inventory, id) /= 0 /\ LiveToken(last'.token)
                     /\ record_sale(last'.token, id, q)) =>
                    IF q > StockOf(inventory, id)
                    THEN last'.status = 400 /\ inventory' = inventory
                    ELSE /\ last'.status = 200
                         /\ inventory' = update_inventory_stock(inventory, id,
                                             StockOf(inventory, id) - q)
                         /\ StockOf(inventory', id) = StockOf(inventory, id) - q
       /\ \A i \in 1..Len(inventory') : inventory'[i].Quantity_In_Stock >= 0]_vars

\* a sale larger than the stock has just been rejected
C34_Witness ==
    /\ last.op = "record_sale"
    /\ last.status = 400
    /\ Len(inventory) > 0

\* a sale has just taken the last units of an item
C34_SoldOutReached ==
    /\ last.op = "record_sale"
    /\ last.status = 200
    /\ \E i \in 1..Len(inventory) : inventory[i].Quantity_In_Stock = 0

---------------------------------------------------------------------------
(* The failed-attempt table *)

\* C35: every record of the failed-attempt table has a count from 1 to 5,
\* and carries a lockout expiry exactly when its count is 5: no record with
\* count 0 and none with a count above 5 is reached.
C35_RecordShape ==
    \A u \in DOMAIN failed_login_attempts :
        /\ failed_login_attempts[u].count \in 1..LockThreshold
        /\ failed_login_attempts[u].locked_until /= None
               <=> failed_login_attempts[u].count = LockThreshold

\* a record at count 5 after a refused login, its lockout run out and the
\* record not cleared yet: the record a sixth count would be added to
C35_Witness ==
    /\ "al" \in DOMAIN failed_login_attempts
    /\ failed_login_attempts["al"].count = LockThreshold
    /\ Elapsed("al")
    /\ last.op = "login"
    /\ last.status = 403

---------------------------------------------------------------------------
(* Where sessions come from *)

\* the sessions of table ss, as a set
SessionSet(ss) == {ss[i] : i \in 1..Len(ss)}

\* C36: a session enters the session table only through a login answered
\* 200 for a username outside a lockout window, with the password that
\* verifies against the stored hash of an account whose status is Active,
\* and the session is bound to that account; no refused login and no other
\* operation adds a session.
C36_SessionsOnlyFromLogin ==
    [][SessionSet(sessions') \ SessionSet(sessions) /= {} =>
          /\ last'.op = "login"
          /\ last'.status = 200
          /\ SessionSet(sessions') \ SessionSet(sessions)
                 = {sessions'[Len(sessions')]}
          /\ sessions'[Len(sessions')].token = last'.token
          /\ \E n \in LoginNames, p \in Passwords :
                /\ login(n, p)
                /\ ~InWindow(Lower(n))
                /\ GoodActive(n, p)
                /\ sessions'[Len(sessions')].user = Snapshot(users[RowOfName(n)])]_vars

\* a login has just been answered with a session, on a username that
\* carries no failed-attempt record any more
C36_Witness ==
    /\ last.op = "login"
    /\ last.status = 200
    /\ SessionIdx(sessions, last.token) /= 0
    /\ failed_login_attempts = EmptyTable
    /\ now > 0

\* the rows of vs whose hash differs from that of the row of us with the
\* same User_ID and Username
Rehashed(us, vs) ==
    {j \in 1..Len(vs) :
        \E i \in 1..Len(us) : /\ us[i].User_ID = vs[j].User_ID
                              /\ us[i].Username = vs[j].Username
                              /\ us[i].Password_Hash /= vs[j].Password_Hash}

\* C37: a change of one's own password through a session changes the hash
\* of no account but the one that logged in to open the session, also after
\* that account was deleted and further users were created.  (In SpecCred no
\* request renames an account, so the Username names the account.)
C37_OwnPasswordOnly ==
    [][last'.op = "change_password" /\ now' = now =>
          \A j \in Rehashed(users, users') :
             /\ SessionIdx(sessions, last'.token) /= 0
             /\ users'[j].Username
                   = sessions[SessionIdx(sessions, last'.token)].user.Username]_vars

\* C37, the part that holds: the row rewritten carries the User_ID the
\* session carries
C37_OwnUserIdOnly ==
    [][last'.op = "change_password" /\ now' = now =>
          \A j \in Rehashed(users, users') :
             /\ SessionIdx(sessions, last'.token) /= 0
             /\ users'[j].User_ID
                   = sessions[SessionIdx(sessions, last'.token)].user.User_ID]_vars

FrameOps == {"create_user", "update_user", "delete_user",
             "reset_user_password", "change_password"}

\* C38: a request to create, update or delete a user, to reset a password or
\* to change one's own leaves the failed-attempt table as it was and removes
\* no session: the session table is the same after it, whoever was deleted
\* or suspended or got a new password; the one session that can go is the
\* expired one presented by a request that is refused for it.
C38_ManagementKeepsTables ==
    [][last'.op \in FrameOps /\ now' = now =>
          /\ failed_login_attempts' = failed_login_attempts
          /\ last'.status /= 401 => sessions' = sessions
          /\ SessionSet(sessions') \subseteq SessionSet(sessions)
          /\ \A s \in SessionSet(sessions) \ SessionSet(sessions') :
                s.token = last'.token /\ now > s.expires_at]_vars

\* a user with a session has just been deleted, with failed logins on record
C38_Witness ==
    /\ last.op = "delete_user" /\ last.status = 200
    /\ \E i \in 1..Len(sessions) :
          /\ FindRow(users, sessions[i].user.User_ID) = 0
          /\ now <= sessions[i].expires_at
    /\ failed_login_attempts /= EmptyTable

\* a user with a session has just been suspended
C38_SuspendedReached ==
    /\ last.op = "update_user" /\ last.status = 200
    /\ \E i \in 1..Len(sessions) :
          LET r == FindRow(users, sessions[i].user.User_ID) IN
          /\ r /= 0
          /\ users[r].Account_Status = "Suspended"
          /\ sessions[i].user.Account_Status = "Active"

UniqueNames(us) ==
    \A i, j \in 1..Len(us) :
        Lower(us[i].Username) = Lower(us[j].Username) => i = j

\* C39: however two concurrent creation requests of Admins interleave, no two
\* rows of the directory share a User_ID and no two share a username, case
\* ignored.
C39_ConcurrentCreatesUnique == UniqueIds(users) /\ UniqueNames(users)

\* C39 for requests served one at a time: a creation that completes while
\* no other request is between its checks and its row keeps User_IDs and
\* usernames unique
C39_SerialCreatesUnique ==
    [][(UniqueIds(users) /\ UniqueNames(users) /\ pending' = {}
            /\ Cardinality(pending) <= 1
            /\ \A req \in pending :
                  /\ req.user_id = generate_user_id(users)
                  /\ create_user(users, req.creator_admin, req.username,
                                 req.password, req.role).exc = "None")
          => UniqueIds(users') /\ UniqueNames(users')]_vars

\* two rows share a User_ID though their usernames differ
C39_SharedIdReached ==
    \E i, j \in 1..Len(users) :
        /\ i /= j
        /\ users[i].User_ID = users[j].User_ID
        /\ Lower(users[i].Username) /= Lower(users[j].Username)

\* C40: however concurrent sales of one item interleave, every sale that
\* reports success takes its quantity off the stock as it stands, so that no
\* update is lost and no more is sold than was in stock: the stock after the
\* sale is the stock before it less the quantity sold, and is not negative.
C40_NoSaleLost ==
    [][last'.op = "record_sale" /\ last'.status = 200 =>
          \A req \in pending \ pending' :
             /\ StockOf(inventory', req.item_id)
                   = StockOf(inventory, req.item_id) - req.qty
             /\ StockOf(inventory', req.item_id) >= 0]_vars

\* C40 for a sale not overtaken: a sale that completes with the stock still
\* as it read it deducts its quantity
C40_UndisturbedSaleDeducts ==
    [][last'.op = "record_sale" /\ last'.status = 200 =>
          \A req \in pending \ pending' :
             req.current_qty = StockOf(inventory, req.item_id) =>
                /\ StockOf(inventory', req.item_id)
                      = StockOf(inventory, req.item_id) - req.qty
                /\ StockOf(inventory', req.item_id) >= 0]_vars

\* C40, the part that holds under every interleaving: no stock is negative
C40_StockNeverNegative ==
    \A i \in 1..Len(inventory) : inventory[i].Quantity_In_Stock >= 0

====
